---- MODULE Spec2Model ----
(***************************************************************************)
(* Model of repotronium: the advanced-analysis request pipeline (temporary *)
(* checkout directories), the generic API client, the relationship scanner *)
(* and the graph formatter.                                                *)
(*                                                                         *)
(* Strings are sequences of one-character strings, so that startsWith,     *)
(* includes, trim, path.extname and the regular expressions are computed   *)
(* as the code computes them.                                              *)
(***************************************************************************)
EXTENDS Integers, Sequences, FiniteSets, TLC

VARIABLES
    clock,      \* Date.now(), in milliseconds
    tempDirs,   \* the checkout directories under TEMP_DIR: path -> content
    reqs,       \* the advanced-analysis requests: id -> handler state
    api,        \* one call of apiClient.fetch
    tree,       \* the checkout the scanner is run on
    scan,       \* one call of analyzeDependencies
    graph,      \* one call of generateDependencyGraph: its input and output
    cx,         \* analyzeFileComplexity on one file: the file, the result
    bi,         \* the business-insights handler: the responses it has sent
    db,         \* the JSON-file stores and the calls made on them
    cfg,        \* two runs of the config handler, and the requests they served
    adv,        \* the advanced-analysis handler: its sample of files and its answer
    page        \* the analyze page: its React state and its requests in flight

vars == <<clock, tempDirs, reqs, api, tree, scan, graph, cx, bi, db, cfg, adv, page>>

reqVars == <<clock, tempDirs, reqs>>
apiVars == <<api>>
scanVars == <<tree, scan>>
graphVars == <<graph>>
cxVars == <<cx>>
biVars == <<bi>>
dbVars == <<db>>
cfgVars == <<cfg>>
advVars == <<adv>>
pageVars == <<page>>
notReq == <<apiVars, scanVars, graphVars, cxVars, biVars, dbVars, cfgVars, advVars, pageVars>>
notApi == <<reqVars, scanVars, graphVars, cxVars, biVars, dbVars, cfgVars, advVars, pageVars>>
notScan == <<reqVars, apiVars, graphVars, cxVars, biVars, dbVars, cfgVars, advVars, pageVars>>
notGraph == <<reqVars, apiVars, scanVars, cxVars, biVars, dbVars, cfgVars, advVars, pageVars>>
notCx == <<reqVars, apiVars, scanVars, graphVars, biVars, dbVars, cfgVars, advVars, pageVars>>
notBi == <<reqVars, apiVars, scanVars, graphVars, cxVars, dbVars, cfgVars, advVars, pageVars>>
notDb == <<reqVars, apiVars, scanVars, graphVars, cxVars, biVars, cfgVars, advVars, pageVars>>
notCfg == <<reqVars, apiVars, scanVars, graphVars, cxVars, biVars, dbVars, advVars, pageVars>>
notAdv == <<reqVars, apiVars, scanVars, graphVars, cxVars, biVars, dbVars, cfgVars, pageVars>>
notPage == <<reqVars, apiVars, scanVars, graphVars, cxVars, biVars, dbVars, cfgVars, advVars>>

(***************************************************************************)
(* Bounds of the model.                                                    *)
(***************************************************************************)
MaxRequests == 2
MaxClock == 2
MaxRetries == 3
MaxRootEntries == 3
MaxSubEntries == 2
MaxEdges == 2
\* The calls of the graph formatter in one run
MaxCalls == 3
\* The tokens of a generated file content, and the insertions of `if`
MaxTokens == 3
MaxInsertions == 1
\* The business-insights requests in one run
MaxInsightRequests == 3
\* The operations on the JSON-file stores in one run, and the last value of
\* the stores' clock
MaxStoreOps == 3
MaxNow == 2
\* The requests served by the configuration handler in one run
MaxConfigRequests == 3
\* The longest list of modules the scan returns, and the most source files
\* the handler's own search finds
MaxModules == 12
MaxSourceFiles == 12
\* The clicks of the user on the analyze page in one run
MaxPageClicks == 3

SetMax(S) == CHOOSE x \in S : \A y \in S : y <= x
SetMin(S) == CHOOSE x \in S : \A y \in S : x <= y

(***************************************************************************)
(* Strings: sequences of one-character strings.                            *)
(***************************************************************************)
\* \s
Whitespace == {" ", "\n", "\t"}

\* String.prototype.startsWith, for a one-character prefix
StartsWith(s, c) == Len(s) > 0 /\ s[1] = c

\* String.prototype.includes, for a one-character needle
Includes(s, c) == \E i \in 1..Len(s) : s[i] = c

\* String.prototype.trim
Trim(s) ==
    LET keep == {i \in 1..Len(s) : s[i] \notin Whitespace} IN
    IF keep = {} THEN <<>> ELSE SubSeq(s, SetMin(keep), SetMax(keep))

LowerChar(c) ==
    CASE c = "J" -> "j"
      [] c = "S" -> "s"
      [] c = "M" -> "m"
      [] c = "D" -> "d"
      [] OTHER -> c

\* String.prototype.toLowerCase
ToLowerCase(s) == [i \in 1..Len(s) |-> LowerChar(s[i])]

\* path.join(a, b) on relative paths; path.relative(baseDir, baseDir) is ''
PathJoin(a, b) == IF a = <<>> THEN b ELSE a \o <<"/">> \o b

\* path.extname(p).slice(1): what follows the last '.' of the last path
\* segment, '' when the segment has no '.' or only a leading one
ExtName(p) ==
    LET slashes == {i \in 1..Len(p) : p[i] = "/"}
        first == IF slashes = {} THEN 1 ELSE SetMax(slashes) + 1
        dots == {i \in (first + 1)..Len(p) : p[i] = "."}
    IN IF dots = {} THEN <<>> ELSE SubSeq(p, SetMax(dots) + 1, Len(p))

(***************************************************************************)
(* Regular expressions, as the scanner's patterns use them: a sequence of  *)
(* quantified atoms (a literal or a character class), matched by           *)
(* backtracking, greedy or lazy, with capture group 1.                     *)
(***************************************************************************)
Lit(str) ==
    [kind |-> "lit", lit |-> str, chars |-> {}, neg |-> FALSE,
     q |-> "one", lazy |-> FALSE, cap |-> 0]
OptLit(str, group) == [Lit(str) EXCEPT !.q = "opt", !.cap = group]
Cls(set, quant) ==
    [kind |-> "cls", lit |-> <<>>, chars |-> set, neg |-> FALSE,
     q |-> quant, lazy |-> FALSE, cap |-> 0]
NotCls(set, quant) == [Cls(set, quant) EXCEPT !.neg = TRUE]
\* (.*?) as capture group `group` (0: not a group); . excludes line breaks
LazyDots(group) == [NotCls({"\n"}, "star") EXCEPT !.lazy = TRUE, !.cap = group]
\* ([\s\S]*?)
LazyAny(group) == [NotCls({}, "star") EXCEPT !.lazy = TRUE, !.cap = group]
Quote == Cls({"'", "\""}, "one")

AtomAt(item, s, pos) ==
    IF item.kind = "lit"
    THEN /\ pos + Len(item.lit) - 1 <= Len(s)
         /\ SubSeq(s, pos, pos + Len(item.lit) - 1) = item.lit
    ELSE /\ pos <= Len(s)
         /\ (s[pos] \in item.chars) # item.neg

\* How many times in a row a character class matches from pos on
RunOf(item, s, pos, stop) ==
    (IF stop = {} THEN Len(s) + 1 ELSE SetMin(stop)) - pos

CountsOf(item, run) ==
    (IF item.q \in {"one", "plus"} THEN 1 ELSE 0)
    .. (IF item.q \in {"one", "opt"} /\ run > 1 THEN 1 ELSE run)

\* The positions at which the text can continue after the item matched at pos
EndsOf(item, s, pos) ==
    IF item.kind = "lit"
    THEN (IF item.q = "opt" THEN {pos} ELSE {}) \cup
         (IF AtomAt(item, s, pos) THEN {pos + Len(item.lit)} ELSE {})
    ELSE {pos + n : n \in CountsOf(item,
                     RunOf(item, s, pos, {i \in pos..Len(s) : ~AtomAt(item, s, i)}))}

\* Of the continuations tried after an item, the one the matcher takes: the
\* shortest for a lazy item, the longest for a greedy one. A continuation is
\* <<e, m>>: the item ends before e and m is the match of the rest from e.
TakenOf(item, good) ==
    CHOOSE t \in good :
        \A u \in good : IF item.lazy THEN t[1] <= u[1] ELSE t[1] >= u[1]

WithItem(item, pos, t) ==
    << [end |-> t[2][1].end,
        cs |-> IF item.cap = 1 THEN pos ELSE t[2][1].cs,
        ce |-> IF item.cap = 1 /\ t[2][1].ce = 0 THEN t[1] ELSE t[2][1].ce] >>

TakeMatch(item, pos, good) ==
    IF good = {} THEN <<>> ELSE WithItem(item, pos, TakenOf(item, good))

\* The match of items k.. of re at pos, as the backtracking matcher finds it:
\* <<>> when there is none, else <<[end, cs, ce]>> with the match ending
\* before `end` and group 1 spanning cs..ce-1 (cs = 0: no group 1).
RECURSIVE MatchFrom(_, _, _, _)
MatchFrom(re, k, s, pos) ==
    IF k > Len(re) THEN << [end |-> pos, cs |-> 0, ce |-> 0] >>
    ELSE TakeMatch(re[k], pos,
            {t \in {<<e, MatchFrom(re, k + 1, s, e)>> : e \in EndsOf(re[k], s, pos)} :
                t[2] # <<>>})

Leftmost(good) ==
    IF good = {} THEN <<>>
    ELSE << CHOOSE t \in good : \A u \in good : t[1] <= u[1] >>

\* The leftmost match at or after pos: <<>> or <<t>> with t[1] its start and
\* t[2][1] its [end, cs, ce]
FirstMatch(re, s, pos) ==
    Leftmost({t \in {<<i, MatchFrom(re, 1, s, i)>> : i \in pos..(Len(s) + 1)} :
                 t[2] # <<>>})

\* content.match(new RegExp(pattern, 'g')) || []: the matched substrings
RECURSIVE MatchAll(_, _, _)
MatchAllFrom(re, s, m) ==
    IF m = <<>> THEN <<>>
    ELSE << SubSeq(s, m[1][1], m[1][2][1].end - 1) >>
         \o MatchAll(re, s, IF m[1][2][1].end = m[1][1] THEN m[1][1] + 1
                            ELSE m[1][2][1].end)

MatchAll(re, s, pos) == MatchAllFrom(re, s, FirstMatch(re, s, pos))

\* new RegExp(pattern).exec(match): <<>> for null, else <<result[1]>>, with
\* result[1] = <<>> when group 1 is empty or absent
ExecResult(s, m) ==
    IF m = <<>> THEN <<>>
    ELSE << IF m[1][2][1].cs = 0 THEN <<>>
            ELSE SubSeq(s, m[1][2][1].cs, m[1][2][1].ce - 1) >>

Exec(re, s) == ExecResult(s, FirstMatch(re, s, 1))

(***************************************************************************)
(* Advanced-analysis handler: cloneRepository, the analysis, the finally   *)
(* path with cleanupTempFiles.                                             *)
(***************************************************************************)
Requests == 1..MaxRequests

\* owner and repo come from req.query and are not validated beyond being
\* non-empty single strings.
Owners == { <<"o">>, <<"o", "_", "p">> }
Repos == { <<"r">>, <<"p", "_", "r">> }

NoDir == <<>>

\* const repoDir = path.join(TEMP_DIR, `${owner}_${repo}_${Date.now()}`)
RepoDirPath(owner, repo, now) == owner \o <<"_">> \o repo \o <<"_">> \o <<now>>

IdleReq ==
    [pc |-> "idle", owner |-> <<>>, repo |-> <<>>,
     cloneDir |-> NoDir, repoDir |-> NoDir, status |-> 0]

\* The handler up to the call of git: session checks, parameter check,
\* createRepoDirectory (Date.now() and mkdirSync run in one synchronous block).
HandlerStart(r) ==
    /\ reqs[r].pc = "idle"
    /\ \E session \in {"none", "noToken", "ok"}, paramsOk \in BOOLEAN,
          owner \in Owners, repo \in Repos, mkdirOk \in BOOLEAN :
          IF session # "ok"
          THEN /\ reqs' = [reqs EXCEPT ![r] = [@ EXCEPT !.pc = "done", !.status = 401]]
               /\ UNCHANGED tempDirs
          ELSE IF ~paramsOk
          THEN /\ reqs' = [reqs EXCEPT ![r] = [@ EXCEPT !.pc = "done", !.status = 400]]
               /\ UNCHANGED tempDirs
          ELSE IF ~mkdirOk
          THEN \* mkdirSync throws: cloneRepository rejects, catch answers 500,
               \* finally sees repoDir = ''
               /\ reqs' = [reqs EXCEPT ![r] = [@ EXCEPT !.pc = "done", !.status = 500,
                                                  !.owner = owner, !.repo = repo]]
               /\ UNCHANGED tempDirs
          ELSE LET dir == RepoDirPath(owner, repo, clock) IN
               \* mkdirSync(..., {recursive: true}) succeeds on an existing directory
               /\ tempDirs' = IF dir \in DOMAIN tempDirs THEN tempDirs
                              ELSE [p \in DOMAIN tempDirs \cup {dir} |->
                                       IF p = dir THEN 0 ELSE tempDirs[p]]
               /\ reqs' = [reqs EXCEPT ![r] = [@ EXCEPT !.pc = "cloning", !.owner = owner,
                                                  !.repo = repo, !.cloneDir = dir]]
    /\ UNCHANGED <<clock, notReq>>

\* git clone succeeds: it needs the target absent or empty. cloneRepository
\* returns repoDir and the handler assigns it.
CloneSucceeds(r) ==
    /\ reqs[r].pc = "cloning"
    /\ LET dir == reqs[r].cloneDir IN
       /\ dir \in DOMAIN tempDirs => tempDirs[dir] = 0
       /\ tempDirs' = [p \in DOMAIN tempDirs \cup {dir} |->
                          IF p = dir THEN r ELSE tempDirs[p]]
       /\ reqs' = [reqs EXCEPT ![r] = [@ EXCEPT !.pc = "analyzing", !.repoDir = dir]]
    /\ UNCHANGED <<clock, notReq>>

\* The handler's finally block: cleanupTempFiles(repoDir) when repoDir is set.
\* A failure inside cleanupTempFiles is caught and logged there.
Finally(dirs, repoDir, cleanupOk) ==
    IF repoDir # NoDir /\ repoDir \in DOMAIN dirs /\ cleanupOk
    THEN [p \in DOMAIN dirs \ {repoDir} |-> dirs[p]]
    ELSE dirs

\* git clone fails or times out: cloneRepository rethrows, the handler's
\* assignment to repoDir never happens, catch answers 500, finally runs.
CloneFails(r) ==
    /\ reqs[r].pc = "cloning"
    /\ tempDirs' = Finally(tempDirs, reqs[r].repoDir, TRUE)
    /\ reqs' = [reqs EXCEPT ![r] = [@ EXCEPT !.pc = "done", !.status = 500]]
    /\ UNCHANGED <<clock, notReq>>

\* The analysis ends (200) or throws (500); either way finally runs.
HandlerFinish(r) ==
    /\ reqs[r].pc = "analyzing"
    /\ \E status \in {200, 500}, cleanupOk \in BOOLEAN :
          /\ tempDirs' = Finally(tempDirs, reqs[r].repoDir, cleanupOk)
          /\ reqs' = [reqs EXCEPT ![r] = [@ EXCEPT !.pc = "done", !.status = status]]
    /\ UNCHANGED <<clock, notReq>>

Tick ==
    /\ clock < MaxClock
    /\ clock' = clock + 1
    /\ UNCHANGED <<tempDirs, reqs, notReq>>

(***************************************************************************)
(* apiClient.fetch: one call, its retry loop and the forced sign-out.      *)
(***************************************************************************)
Undefined == <<>>

ApiIdle ==
    [pc |-> "idle", session |-> "null", retries |-> 0, attempt |-> 0,
     requests |-> 0, responses |-> <<>>, signOuts |-> 0, signOutResult |-> "none",
     lastError |-> Undefined, result |-> [kind |-> "none", value |-> ""]]

\* What one await fetch(url, requestOptions) and the reading of its body yield.
FetchOutcomes == {"401", "notOk", "networkError", "ok", "okUnparsable"}

\* What a rejected promise carries as its message ("" for none).
SignOutRejections == {"signOut failed", ""}

IsLastAttempt_OneEarly(attempt, retries) == attempt + 1 = retries

\* if (attempt === retries)
IsLastAttempt(attempt, retries) == attempt = retries

\* lastError?.message || 'Request failed'
ErrorResult(lastError) ==
    [kind |-> "error",
     value |-> IF lastError = Undefined \/ lastError[1] = ""
               THEN "Request failed" ELSE lastError[1]]

ApiCatch_OneMore(a, message) ==
    IF a.attempt <= a.retries
    THEN [a EXCEPT !.lastError = <<message>>, !.attempt = @ + 1, !.pc = "request"]
    ELSE [a EXCEPT !.lastError = <<message>>, !.attempt = @ + 1, !.pc = "done",
                   !.result = ErrorResult(<<message>>)]

\* The catch block of the loop body, then the loop's increment and test.
ApiCatch(a, message) ==
    IF a.attempt < a.retries
    THEN [a EXCEPT !.lastError = <<message>>, !.attempt = @ + 1, !.pc = "request"]
    ELSE [a EXCEPT !.lastError = <<message>>, !.attempt = @ + 1, !.pc = "done",
                   !.result = ErrorResult(<<message>>)]

\* The call, up to the first request.
ApiFetch ==
    /\ api.pc = "idle"
    /\ \E session \in {"null", "noToken", "ok"}, retries \in 0..MaxRetries :
          api' = IF session # "ok"
                 THEN [api EXCEPT !.pc = "done", !.session = session, !.retries = retries,
                                  !.result = [kind |-> "error", value |-> "Not authenticated"]]
                 ELSE [api EXCEPT !.pc = "request", !.session = session,
                                  !.retries = retries, !.attempt = 0]
    /\ UNCHANGED notApi

\* One pass of the loop body: await fetch, then the branches on the response.
ApiAttempt ==
    /\ api.pc = "request"
    /\ \E outcome \in FetchOutcomes :
          LET a == [api EXCEPT !.requests = @ + 1,
                               !.responses = Append(@, outcome)] IN
          api' = CASE outcome = "401" ->
                        IF IsLastAttempt(a.attempt, a.retries)
                        THEN [a EXCEPT !.pc = "signOut"]
                        ELSE IF a.attempt + 1 <= a.retries
                        THEN [a EXCEPT !.attempt = @ + 1]
                        ELSE [a EXCEPT !.attempt = @ + 1, !.pc = "done",
                                       !.result = ErrorResult(a.lastError)]
                   [] outcome = "notOk" -> ApiCatch(a, "Request failed with status")
                   [] outcome = "networkError" -> ApiCatch(a, "Failed to fetch")
                   [] outcome = "okUnparsable" -> ApiCatch(a, "Unexpected token")
                   [] outcome = "ok" ->
                        [a EXCEPT !.pc = "done",
                                  !.result = [kind |-> "data", value |-> "data"]]
    /\ UNCHANGED notApi

\* await signOut(...) resolves: return { error: 'Session expired' }
ApiSignOutResolves ==
    /\ api.pc = "signOut"
    /\ api' = [api EXCEPT !.pc = "done", !.signOuts = @ + 1, !.signOutResult = "resolved",
                          !.result = [kind |-> "error", value |-> "Session expired"]]
    /\ UNCHANGED notApi

\* await signOut(...) rejects: the loop's catch block takes the rejection.
ApiSignOutRejects ==
    /\ api.pc = "signOut"
    /\ \E message \in SignOutRejections :
          api' = ApiCatch([api EXCEPT !.signOuts = @ + 1, !.signOutResult = "rejected"],
                          message)
    /\ UNCHANGED notApi

(***************************************************************************)
(* The relationship scanner: analyzeFileRelationships.                     *)
(***************************************************************************)
\* A checkout is a tree of entries; an entry is a record
\*   name     the entry's name in its directory
\*   type     "file" or "dir"
\*   content  a file's text
\*   children a directory's entries, in readdirSync order
\*   statOk   FALSE: fs.statSync(entry) throws and fs.existsSync(entry) is false
\*   readOk   FALSE: fs.readFileSync(file) or fs.readdirSync(dir) throws
File(name, content) ==
    [name |-> name, type |-> "file", content |-> content, children |-> <<>>,
     statOk |-> TRUE, readOk |-> TRUE]
Dir(name, children) ==
    [name |-> name, type |-> "dir", content |-> <<>>, children |-> children,
     statOk |-> TRUE, readOk |-> TRUE]

NoRelationships == [files |-> <<>>, dependencies |-> <<>>]

\* const patterns: Record<string, RegExp[]>
JsPatterns ==
    << << Lit(<<"i", "m", "p", "o", "r", "t">>), Cls(Whitespace, "plus"), LazyDots(0), Lit(<<"f", "r", "o", "m">>),
          Cls(Whitespace, "plus"), Quote, LazyDots(1), Quote >>,
       << Lit(<<"r", "e", "q", "u", "i", "r", "e", "(">>), Quote, LazyDots(1), Quote, Lit(<<")">>) >> >>
PyPatterns ==
    << << Lit(<<"i", "m", "p", "o", "r", "t">>), Cls(Whitespace, "plus"), LazyDots(1) >>,
       << Lit(<<"f", "r", "o", "m">>), Cls(Whitespace, "plus"), LazyDots(1),
          Cls(Whitespace, "plus"), Lit(<<"i", "m", "p", "o", "r", "t">>) >> >>
JavaPatterns ==
    << << Lit(<<"i", "m", "p", "o", "r", "t">>), Cls(Whitespace, "plus"), LazyDots(1), Lit(<<";">>) >> >>
PhpPatterns ==
    << << Lit(<<"r", "e", "q", "u", "i", "r", "e">>), OptLit(<<"_", "o", "n", "c", "e">>, 1), Cls(Whitespace, "star"), Lit(<<"(">>),
          Quote, LazyDots(2), Quote, Lit(<<")">>) >>,
       << Lit(<<"i", "n", "c", "l", "u", "d", "e">>), OptLit(<<"_", "o", "n", "c", "e">>, 1), Cls(Whitespace, "star"), Lit(<<"(">>),
          Quote, LazyDots(2), Quote, Lit(<<")">>) >> >>
RbPatterns ==
    << << Lit(<<"r", "e", "q", "u", "i", "r", "e">>), Cls(Whitespace, "plus"), Quote, LazyDots(1), Quote >>,
       << Lit(<<"l", "o", "a", "d">>), Cls(Whitespace, "plus"), Quote, LazyDots(1), Quote >>,
       << Lit(<<"i", "m", "p", "o", "r", "t">>), Cls(Whitespace, "plus"), Quote, LazyDots(1), Quote >>,
       << Lit(<<"i", "n", "c", "l", "u", "d", "e">>), Cls(Whitespace, "plus") >> >>
GoPatterns ==
    << << Lit(<<"i", "m", "p", "o", "r", "t">>), Cls(Whitespace, "plus"), Lit(<<"(">>), LazyAny(1), Lit(<<")">>) >>,
       << Lit(<<"i", "m", "p", "o", "r", "t">>), Cls(Whitespace, "plus"), Quote, LazyDots(1), Quote >> >>

\* patterns[ext], <<>> when the table has no entry for ext
Patterns(ext) ==
    CASE ext \in {<<"j", "s">>, <<"t", "s">>, <<"j", "s", "x">>, <<"t", "s", "x">>} -> JsPatterns
      [] ext = <<"p", "y">> -> PyPatterns
      [] ext = <<"j", "a", "v", "a">> -> JavaPatterns
      [] ext = <<"p", "h", "p">> -> PhpPatterns
      [] ext = <<"r", "b">> -> RbPatterns
      [] ext = <<"g", "o">> -> GoPatterns
      [] OTHER -> <<>>

\* const sourceExtensions
SourceExtensions ==
    { <<"j", "s">>, <<"j", "s", "x">>, <<"t", "s">>, <<"t", "s", "x">>, <<"p", "y">>, <<"j", "a", "v", "a">>, <<"r", "b">>, <<"g", "o">>,
      <<"c">>, <<"c", "p", "p">>, <<"h">>, <<"h", "p", "p">>, <<"c", "s">>, <<"p", "h", "p">>, <<"s", "w", "i", "f", "t">>, <<"k", "t">>,
      <<"r", "s">>, <<"d", "a", "r", "t">>, <<"s", "h">>, <<"b", "a", "s", "h">>, <<"z", "s", "h">>, <<"m", "d">>, <<"j", "s", "o", "n">>,
      <<"y", "a", "m", "l">>, <<"y", "m", "l">>, <<"x", "m", "l">>, <<"h", "t", "m", "l">>, <<"c", "s", "s">>, <<"s", "c", "s", "s">>, <<"l", "e", "s", "s">> }

\* The directories processDirectory does not enter
IgnoredDirs == { <<"n", "o", "d", "e", "_", "m", "o", "d", "u", "l", "e", "s">>, <<"d", "i", "s", "t">>, <<"b", "u", "i", "l", "d">>, <<"o", "b", "j">>, <<"t", "a", "r", "g", "e", "t">> }
\* The directories the sub-directory re-scan does not consider
RescanIgnoredDirs == { <<"n", "o", "d", "e", "_", "m", "o", "d", "u", "l", "e", "s">>, <<"d", "i", "s", "t">>, <<"b", "u", "i", "l", "d">> }
\* The directories scanFiles does not enter
DirectScanIgnoredDirs == { <<"n", "o", "d", "e", "_", "m", "o", "d", "u", "l", "e", "s">>, <<"d", "i", "s", "t">> }
\* const projectIndicators
ProjectIndicators ==
    { <<"p", "a", "c", "k", "a", "g", "e", ".", "j", "s", "o", "n">>, <<"s", "r", "c">>, <<"p", "u", "b", "l", "i", "c">>, <<"a", "p", "p">>, <<"l", "i", "b">>, <<"c", "o", "m", "p", "o", "n", "e", "n", "t", "s">> }

IsLocalTarget_NoColon(importPath) ==
    StartsWith(importPath, ".") \/ StartsWith(importPath, "/")

\* The negation of the "Skip external dependencies" test
IsLocalTarget(importPath) ==
    \/ StartsWith(importPath, ".")
    \/ StartsWith(importPath, "/")
    \/ Includes(importPath, ":")

\* What group 1 captured in each match of each pattern, in the order the
\* loops of processFile visit them; <<>> where result or result[1] is falsy
CaptureOf(result) == IF result = <<>> THEN <<>> ELSE result[1]

RECURSIVE CapturesOfMatches(_, _, _)
CapturesOfMatches(pattern, matches, i) ==
    IF i > Len(matches) THEN <<>>
    ELSE << CaptureOf(Exec(pattern, matches[i])) >>
         \o CapturesOfMatches(pattern, matches, i + 1)

RECURSIVE Captures(_, _, _)
Captures(pats, content, p) ==
    IF p > Len(pats) THEN <<>>
    ELSE CapturesOfMatches(pats[p], MatchAll(pats[p], content, 1), 1)
         \o Captures(pats, content, p + 1)

\* The edges processFile pushes for one file
RECURSIVE EdgesOf_FromTarget(_, _, _)
EdgesOf_FromTarget(captures, relativePath, i) ==
    IF i > Len(captures) THEN <<>>
    ELSE (IF captures[i] # <<>> /\ IsLocalTarget(Trim(captures[i]))
          THEN << [from |-> Trim(captures[i]), to |-> Trim(captures[i]), type |-> "import"] >>
          ELSE <<>>)
         \o EdgesOf_FromTarget(captures, relativePath, i + 1)

RECURSIVE EdgesOf(_, _, _)
EdgesOf(captures, relativePath, i) ==
    IF i > Len(captures) THEN <<>>
    ELSE (IF captures[i] # <<>> /\ IsLocalTarget(Trim(captures[i]))
          THEN << [from |-> relativePath, to |-> Trim(captures[i]), type |-> "import"] >>
          ELSE <<>>)
         \o EdgesOf(captures, relativePath, i + 1)

ProcessFileWith(pats, item, relativePath, rels) ==
    IF pats = <<>> THEN rels
    ELSE IF ~item.readOk THEN rels
    ELSE [files |-> Append(rels.files, relativePath),
          dependencies |-> rels.dependencies
              \o EdgesOf(Captures(pats, item.content, 1), relativePath, 1)]

ProcessFile(item, relativePath, rels) ==
    ProcessFileWith(Patterns(ToLowerCase(ExtName(item.name))), item, relativePath, rels)

IsHidden_Never(name) == FALSE

IsHidden(name) == StartsWith(name, ".")

\* processDirectory(dirPath, baseDir) with path.relative(baseDir, dirPath) = rel.
\* The callbacks of items.map run to completion in order: nothing in them
\* suspends before its last statement.
RECURSIVE ProcessItems(_, _, _, _)
ProcessDirectory(exists, dir, rel, rels) ==
    IF ~exists THEN rels
    ELSE IF ~dir.readOk THEN rels
    ELSE ProcessItems(dir.children, 1, rel, rels)

ProcessItems(items, i, rel, rels) ==
    IF i > Len(items) THEN rels
    ELSE LET item == items[i]
             relativePath == PathJoin(rel, item.name)
             ext == ToLowerCase(ExtName(item.name))
             after ==
                 IF ~item.statOk THEN rels
                 ELSE IF IsHidden(item.name) /\ item.name # <<".", "g", "i", "t", "i", "g", "n", "o", "r", "e">> THEN rels
                 ELSE IF item.type = "dir" /\ item.name \in IgnoredDirs THEN rels
                 ELSE IF item.type = "dir"
                 THEN ProcessDirectory(TRUE, item, relativePath, rels)
                 ELSE IF ext \in SourceExtensions \/ ext = <<>>
                 THEN ProcessFile(item, relativePath, rels)
                 ELSE [rels EXCEPT !.files = Append(@, relativePath)]
         IN ProcessItems(items, i + 1, rel, after)

\* fs.existsSync(path.join(itemPath, indicator))
HasIndicator(dir) ==
    \E j \in 1..Len(dir.children) :
        dir.children[j].statOk /\ dir.children[j].name \in ProjectIndicators

\* The sub-directory re-scan: every callback runs, also after one has thrown
RECURSIVE RescanItems(_, _, _)
RescanItems(items, i, rels) ==
    IF i > Len(items) THEN rels
    ELSE LET item == items[i]
             after ==
                 IF ~item.statOk THEN rels
                 ELSE IF item.type = "dir" /\ ~IsHidden(item.name)
                         /\ item.name \notin RescanIgnoredDirs /\ HasIndicator(item)
                 THEN ProcessDirectory(TRUE, item, <<>>, rels)
                 ELSE rels
         IN RescanItems(items, i + 1, after)

SubdirRescan_Always(root, rels) ==
    IF ~root.statOk \/ ~root.readOk THEN rels
    ELSE RescanItems(root.children, 1, rels)

\* if (relationships.files.length < 3) { try { ... } catch { } }
SubdirRescan(root, rels) ==
    IF Len(rels.files) < 3
    THEN IF ~root.statOk \/ ~root.readOk THEN rels
         ELSE RescanItems(root.children, 1, rels)
    ELSE rels

\* scanFiles(dir): [threw, results]
RECURSIVE ScanFiles(_, _)
RECURSIVE ScanList(_, _, _, _)
ScanFiles(dir, rel) ==
    IF ~dir.statOk \/ ~dir.readOk THEN [threw |-> TRUE, results |-> <<>>]
    ELSE ScanList(dir.children, 1, rel, <<>>)

ScanList(list, i, rel, results) ==
    IF i > Len(list) THEN [threw |-> FALSE, results |-> results]
    ELSE LET file == list[i]
             relativePath == PathJoin(rel, file.name)
         IN IF ~file.statOk THEN [threw |-> TRUE, results |-> <<>>]
            ELSE IF file.type = "dir" /\ ~IsHidden(file.name)
                    /\ file.name \notin DirectScanIgnoredDirs
            THEN LET sub == ScanFiles(file, relativePath) IN
                 IF sub.threw THEN sub
                 ELSE ScanList(list, i + 1, rel, results \o sub.results)
            ELSE IF file.type = "file" /\ ~IsHidden(file.name)
            THEN ScanList(list, i + 1, rel, Append(results, relativePath))
            ELSE ScanList(list, i + 1, rel, results)

\* The example files and edges "for demo purposes"
ExampleData ==
    [files |-> << <<"s", "r", "c", "/", "c", "o", "m", "p", "o", "n", "e", "n", "t", "s", "/", "E", "x", "a", "m", "p", "l", "e", "C", "o", "m", "p", "o", "n", "e", "n", "t", ".", "t", "s", "x">>, <<"s", "r", "c", "/", "u", "t", "i", "l", "s", "/", "h", "e", "l", "p", "e", "r", "s", ".", "j", "s">>,
                  <<"s", "r", "c", "/", "p", "a", "g", "e", "s", "/", "i", "n", "d", "e", "x", ".", "t", "s", "x">>, <<"s", "r", "c", "/", "l", "i", "b", "/", "a", "p", "i", ".", "t", "s">>, <<"s", "r", "c", "/", "s", "t", "y", "l", "e", "s", "/", "g", "l", "o", "b", "a", "l", ".", "c", "s", "s">> >>,
     dependencies |->
        << [from |-> <<"s", "r", "c", "/", "p", "a", "g", "e", "s", "/", "i", "n", "d", "e", "x", ".", "t", "s", "x">>, to |-> <<".", ".", "/", "c", "o", "m", "p", "o", "n", "e", "n", "t", "s", "/", "E", "x", "a", "m", "p", "l", "e", "C", "o", "m", "p", "o", "n", "e", "n", "t">>,
            type |-> "import"],
           [from |-> <<"s", "r", "c", "/", "p", "a", "g", "e", "s", "/", "i", "n", "d", "e", "x", ".", "t", "s", "x">>, to |-> <<".", ".", "/", "u", "t", "i", "l", "s", "/", "h", "e", "l", "p", "e", "r", "s">>, type |-> "import"],
           [from |-> <<"s", "r", "c", "/", "c", "o", "m", "p", "o", "n", "e", "n", "t", "s", "/", "E", "x", "a", "m", "p", "l", "e", "C", "o", "m", "p", "o", "n", "e", "n", "t", ".", "t", "s", "x">>, to |-> <<".", ".", "/", "l", "i", "b", "/", "a", "p", "i">>,
            type |-> "import"],
           [from |-> <<"s", "r", "c", "/", "l", "i", "b", "/", "a", "p", "i", ".", "t", "s">>, to |-> <<".", ".", "/", "u", "t", "i", "l", "s", "/", "h", "e", "l", "p", "e", "r", "s">>, type |-> "import"] >>]

\* foundFiles chained one to the next
RelatedEdges_Chain(foundFiles) ==
    [i \in 1..(Len(foundFiles) - 1) |->
        [from |-> foundFiles[i], to |-> foundFiles[i + 1], type |-> "related"]]

\* for (let i = 1; i < foundFiles.length; i++) push {from: foundFiles[0], ...}
RelatedEdges(foundFiles) ==
    [i \in 1..(Len(foundFiles) - 1) |->
        [from |-> foundFiles[1], to |-> foundFiles[i + 1], type |-> "related"]]

DirectScanCatch_KeepEmpty(rels) == rels

\* The catch block of the direct scan
DirectScanCatch(rels) == ExampleData

\* if (relationships.files.length === 0) { try { ... } catch { ... } }
DirectScan(root, rels) ==
    IF Len(rels.files) = 0
    THEN LET found == ScanFiles(root, <<>>) IN
         IF found.threw THEN DirectScanCatch(rels)
         ELSE IF Len(found.results) > 0
         THEN [files |-> found.results,
               dependencies |-> rels.dependencies \o RelatedEdges(found.results)]
         ELSE ExampleData
    ELSE rels

(***************************************************************************)
(* The checkouts the scanner is run on.                                    *)
(***************************************************************************)
NoImports == <<"l", "e", "t", " ", "x">>
ImportLocal == <<"i", "m", "p", "o", "r", "t", " ", "b", " ", "f", "r", "o", "m", " ", "'", ".", "/", "b", "'">>
ImportBare == <<"i", "m", "p", "o", "r", "t", " ", "'", ".", "/", "b", "'">>
RequireLocal == <<"r", "e", "q", "u", "i", "r", "e", "(", "'", ".", "/", "b", "'", ")">>
ImportAbsolute == <<"i", "m", "p", "o", "r", "t", " ", "b", " ", "f", "r", "o", "m", " ", "'", "/", "b", "'">>
ImportPackage == <<"i", "m", "p", "o", "r", "t", " ", "b", " ", "f", "r", "o", "m", " ", "'", "p", "k", "g", "'">>
ImportPackagePath == <<"i", "m", "p", "o", "r", "t", " ", "b", " ", "f", "r", "o", "m", " ", "'", "p", "k", "g", "/", "b", "'">>
ImportColon == <<"i", "m", "p", "o", "r", "t", " ", "f", "s", " ", "f", "r", "o", "m", " ", "'", "n", "o", "d", "e", ":", "f", "s", "'">>
ImportPadded == <<"i", "m", "p", "o", "r", "t", " ", "b", " ", "f", "r", "o", "m", " ", "'", " ", ".", "/", "b", "'">>
ImportLocalAndPackage == <<"i", "m", "p", "o", "r", "t", " ", "b", " ", "f", "r", "o", "m", " ", "'", ".", "/", "b", "'", "\n", "i", "m", "p", "o", "r", "t", " ", "c", " ", "f", "r", "o", "m", " ", "\"", "p", "k", "g", "\"">>
ImportTwice == <<"i", "m", "p", "o", "r", "t", " ", "b", " ", "f", "r", "o", "m", " ", "'", ".", "/", "b", "'", "\n", "i", "m", "p", "o", "r", "t", " ", "b", " ", "f", "r", "o", "m", " ", "'", ".", "/", "b", "'">>

JsContents ==
    << NoImports, ImportLocal, ImportBare, RequireLocal, ImportAbsolute, ImportPackage,
       ImportPackagePath, ImportColon, ImportPadded, ImportLocalAndPackage, ImportTwice >>

PyContents == << <<"i", "m", "p", "o", "r", "t", " ", "o", "s">>, <<"f", "r", "o", "m", " ", ".", "b", " ", "i", "m", "p", "o", "r", "t", " ", "x">> >>

\* What a project sub-directory can hold, in name order
SubMenu ==
    << File(<<"a", ".", "j", "s">>, ImportLocal),
       File(<<"b", ".", "j", "s">>, NoImports),
       File(<<"c", ".", "m", "d">>, <<"#", " ", "c">>),
       File(<<"p", "a", "c", "k", "a", "g", "e", ".", "j", "s", "o", "n">>, <<"0">>),
       Dir(<<"s", "r", "c">>, << File(<<"a", ".", "j", "s">>, NoImports) >>) >>

\* The strictly increasing index sequences of length <= k over 1..n
RECURSIVE Combos(_, _)
Combos(n, k) ==
    IF k = 0 THEN { <<>> }
    ELSE LET shorter == Combos(n, k - 1) IN
         shorter \cup
         UNION { { Append(c, i) : i \in (IF c = <<>> THEN 1 ELSE c[Len(c)] + 1)..n } :
                    c \in {d \in shorter : Len(d) = k - 1} }

\* The listings of at most k entries of the menu, in menu order, no name twice
Listings(menu, k) ==
    LET picks == {c \in Combos(Len(menu), k) :
                     \A j \in 1..(Len(c) - 1) : menu[c[j]].name # menu[c[j + 1]].name}
    IN {[j \in 1..Len(c) |-> menu[c[j]]] : c \in picks}

SeqOfSet(S) ==
    LET RECURSIVE Build(_)
        Build(T) == IF T = {} THEN <<>>
                    ELSE LET x == CHOOSE y \in T : TRUE IN << x >> \o Build(T \ {x})
    IN Build(S)

AppDirs == SeqOfSet({ Dir(<<"a", "p", "p">>, l) : l \in Listings(SubMenu, MaxSubEntries) })

\* What the checkout's root can hold, in name order
RootMenu ==
    << Dir(<<".", "g", "i", "t">>, << File(<<"H", "E", "A", "D">>, <<"r", "e", "f">>) >>),
       File(<<".", "g", "i", "t", "i", "g", "n", "o", "r", "e">>, <<"d", "i", "s", "t">>) >>
    \o [i \in 1..Len(JsContents) |-> File(<<"a", ".", "j", "s">>, JsContents[i])]
    \o << [File(<<"a", ".", "j", "s">>, ImportLocal) EXCEPT !.readOk = FALSE],
          [File(<<"a", ".", "j", "s">>, ImportLocal) EXCEPT !.statOk = FALSE] >>
    \o AppDirs
    \o << [Dir(<<"a", "p", "p">>, <<>>) EXCEPT !.readOk = FALSE],
          File(<<"b", ".", "j", "s">>, NoImports),
          Dir(<<"b", "u", "i", "l", "d">>, << File(<<"c", ".", "m", "d">>, <<"#", " ", "c">>) >>),
          File(<<"c", ".", "m", "d">>, <<"#", " ", "c">>),
          File(<<"d", ".", "t", "x", "t">>, <<"d">>) >>
    \o [i \in 1..Len(PyContents) |-> File(<<"m", ".", "p", "y">>, PyContents[i])]
    \o << Dir(<<"n", "o", "d", "e", "_", "m", "o", "d", "u", "l", "e", "s">>, << File(<<"a", ".", "j", "s">>, ImportLocal) >>),
          File(<<"p", "a", "c", "k", "a", "g", "e", ".", "j", "s", "o", "n">>, <<"0">>),
          Dir(<<"w", "e", "b">>, << File(<<"a", ".", "j", "s">>, ImportLocal), File(<<"p", "a", "c", "k", "a", "g", "e", ".", "j", "s", "o", "n">>, <<"0">>) >>),
          Dir(<<"w", "e", "b">>, << File(<<"a", ".", "j", "s">>, NoImports) >>) >>

\* repoDir: present and readable, missing, or unreadable
Checkouts ==
    { Dir(<<>>, l) : l \in Listings(RootMenu, MaxRootEntries) }
    \cup { [Dir(<<>>, <<>>) EXCEPT !.statOk = FALSE],
           [Dir(<<>>, <<>>) EXCEPT !.readOk = FALSE] }

(***************************************************************************)
(* analyzeDependencies and the steps of analyzeFileRelationships.          *)
(***************************************************************************)
ScanIdle == [pc |-> "idle", relationships |-> NoRelationships, route |-> "none"]

\* fs.existsSync(path.join(repoDir, name))
ExistsInRoot(root, name) ==
    /\ root.statOk
    /\ \E j \in 1..Len(root.children) :
          root.children[j].name = name /\ root.children[j].statOk

\* const commonSrcDirs
CommonSrcDirs ==
    { <<"s", "r", "c">>, <<"a", "p", "p">>, <<"l", "i", "b">>, <<"c", "o", "m", "p", "o", "n", "e", "n", "t", "s">>, <<"p", "u", "b", "l", "i", "c">>, <<"a", "s", "s", "e", "t", "s">>, <<"p", "a", "g", "e", "s">>, <<"u", "t", "i", "l", "s">> }

\* analyzeDependencies up to its choice: dependency-cruiser for a project with
\* package.json and a source directory, the scanner otherwise and whenever
\* dependency-cruiser fails
AnalyzeDependencies ==
    /\ scan.pc = "idle"
    /\ LET hasPackageJson == ExistsInRoot(tree, <<"p", "a", "c", "k", "a", "g", "e", ".", "j", "s", "o", "n">>)
           srcDirs == {d \in CommonSrcDirs : ExistsInRoot(tree, d)}
       IN IF hasPackageJson /\ srcDirs # {}
          THEN \E depCruiseOk \in BOOLEAN :
                  scan' = IF depCruiseOk
                          THEN [scan EXCEPT !.pc = "done", !.route = "depcruise"]
                          ELSE [scan EXCEPT !.pc = "firstPass", !.route = "fallback"]
          ELSE scan' = [scan EXCEPT !.pc = "firstPass", !.route = "manual"]
    /\ UNCHANGED <<tree, notScan>>

\* await processDirectory(repoDir)
FirstPass ==
    /\ scan.pc = "firstPass"
    /\ scan' = [scan EXCEPT !.pc = "rescan",
                  !.relationships = ProcessDirectory(tree.statOk, tree, <<>>, @)]
    /\ UNCHANGED <<tree, notScan>>

\* The sub-directory re-scan, when fewer than 3 files were found
Rescan ==
    /\ scan.pc = "rescan"
    /\ scan' = [scan EXCEPT !.pc = "direct",
                  !.relationships = SubdirRescan(tree, @)]
    /\ UNCHANGED <<tree, notScan>>

\* The direct scan and the example data, when no file was found; the return
Direct ==
    /\ scan.pc = "direct"
    /\ scan' = [scan EXCEPT !.pc = "done",
                  !.relationships = DirectScan(tree, @)]
    /\ UNCHANGED <<tree, notScan>>

(***************************************************************************)
(* The graph formatter: generateDependencyGraph.                           *)
(***************************************************************************)
\* JavaScript values, as far as the formatter tells them apart: null,
\* undefined (a missing field or argument), an array, an object, and a value
\* that is neither (a number, a string without forEach)
Null == [kind |-> "null", items |-> <<>>, fields |-> <<>>]
Missing == [kind |-> "undefined", items |-> <<>>, fields |-> <<>>]
NotAnArray == [kind |-> "other", items |-> <<>>, fields |-> <<>>]
Array(items) == [kind |-> "array", items |-> items, fields |-> <<>>]
\* An object with the fields modules and dependencies
Object(modules, dependencies) ==
    [kind |-> "object", items |-> <<>>, fields |-> <<modules, dependencies>>]
DependenciesOf(object) == object.fields[2]
\* !value
Falsy(value) == value.kind \in {"null", "undefined"}

PlaceholderGraph ==
    [nodes |-> << [id |-> <<"f", "i", "l", "e", "1", ".", "j", "s">>, group |-> 1], [id |-> <<"f", "i", "l", "e", "2", ".", "j", "s">>, group |-> 1],
                  [id |-> <<"f", "i", "l", "e", "3", ".", "c", "s", "s">>, group |-> 3], [id |-> <<"f", "i", "l", "e", "4", ".", "t", "s", "x">>, group |-> 2] >>,
     links |-> << [source |-> <<"f", "i", "l", "e", "1", ".", "j", "s">>, target |-> <<"f", "i", "l", "e", "2", ".", "j", "s">>, value |-> 1],
                  [source |-> <<"f", "i", "l", "e", "1", ".", "j", "s">>, target |-> <<"f", "i", "l", "e", "3", ".", "c", "s", "s">>, value |-> 1],
                  [source |-> <<"f", "i", "l", "e", "2", ".", "j", "s">>, target |-> <<"f", "i", "l", "e", "4", ".", "t", "s", "x">>, value |-> 1] >>]

\* The graph returned from the catch block
ErrorGraph == [nodes |-> << [id |-> <<"e", "r", "r", "o", "r">>, group |-> 1] >>, links |-> <<>>]

\* The group of a node, from its file extension
GroupOfExt(ext) ==
    CASE ext \in {<<"j", "s">>, <<"j", "s", "x">>} -> 1
      [] ext \in {<<"t", "s">>, <<"t", "s", "x">>} -> 2
      [] ext \in {<<"c", "s", "s">>, <<"s", "c", "s", "s">>, <<"l", "e", "s", "s">>} -> 3
      [] ext \in {<<"h", "t", "m", "l">>, <<"h", "t", "m">>} -> 4
      [] ext \in {<<"j", "s", "o", "n">>, <<"y", "a", "m", "l">>, <<"y", "m", "l">>} -> 5
      [] ext \in {<<"m", "d">>, <<"t", "x", "t">>} -> 6
      [] ext = <<"p", "y">> -> 7
      [] ext = <<"j", "a", "v", "a">> -> 8
      [] ext = <<"g", "o">> -> 9
      [] OTHER -> 1

GroupOf(file) == GroupOfExt(ToLowerCase(ExtName(file)))

\* Set.prototype.add on a Set kept in insertion order
SetAdd(files, file) ==
    IF \E i \in 1..Len(files) : files[i] = file THEN files ELSE Append(files, file)

RECURSIVE UniqueFiles_FromOnly(_, _, _)
UniqueFiles_FromOnly(deps, i, files) ==
    IF i > Len(deps) THEN files
    ELSE UniqueFiles_FromOnly(deps, i + 1, SetAdd(files, deps[i].from))

\* uniqueFiles after the first forEach: dep.from, then dep.to, of every entry
RECURSIVE UniqueFiles(_, _, _)
UniqueFiles(deps, i, files) ==
    IF i > Len(deps) THEN files
    ELSE UniqueFiles(deps, i + 1, SetAdd(SetAdd(files, deps[i].from), deps[i].to))

NodesOf(files) == [i \in 1..Len(files) |-> [id |-> files[i], group |-> GroupOf(files[i])]]

LinksOf_Merged(deps) ==
    [i \in 1..Len(deps) |->
        [source |-> deps[i].from, target |-> deps[i].to,
         value |-> Cardinality({k \in 1..Len(deps) : deps[k] = deps[i]})]]

LinksOf(deps) ==
    [i \in 1..Len(deps) |-> [source |-> deps[i].from, target |-> deps[i].to, value |-> 1]]

GenerateDependencyGraph_NoFieldCheck(dependencies) ==
    IF Falsy(dependencies) THEN PlaceholderGraph
    ELSE IF DependenciesOf(dependencies).kind # "array" THEN ErrorGraph
    ELSE [nodes |-> NodesOf(UniqueFiles(DependenciesOf(dependencies).items, 1, <<>>)),
          links |-> LinksOf(DependenciesOf(dependencies).items)]

GenerateDependencyGraph_SharedNodes(dependencies) ==
    IF Falsy(dependencies) THEN PlaceholderGraph
    ELSE IF Falsy(DependenciesOf(dependencies)) THEN PlaceholderGraph
    ELSE IF DependenciesOf(dependencies).kind # "array" THEN ErrorGraph
    ELSE [nodes |-> (IF graph.calls = <<>> THEN <<>>
                     ELSE graph.calls[Len(graph.calls)].output.nodes)
                    \o NodesOf(UniqueFiles(DependenciesOf(dependencies).items, 1, <<>>)),
          links |-> LinksOf(DependenciesOf(dependencies).items)]

GenerateDependencyGraph(dependencies) ==
    IF Falsy(dependencies) THEN PlaceholderGraph
    ELSE IF Falsy(DependenciesOf(dependencies)) THEN PlaceholderGraph
    ELSE IF DependenciesOf(dependencies).kind # "array" THEN ErrorGraph
    ELSE [nodes |-> NodesOf(UniqueFiles(DependenciesOf(dependencies).items, 1, <<>>)),
          links |-> LinksOf(DependenciesOf(dependencies).items)]

\* The inputs the formatter is run on
GraphPaths == { <<"a", ".", "j", "s">>, <<"b", ".", "j", "s">>, <<".", "/", "b">>, <<"x", ".", "t", "s">> }

GraphEdges == { [from |-> f, to |-> t, type |-> "import"] : f \in GraphPaths, t \in GraphPaths }

EdgeLists == UNION { [1..n -> GraphEdges] : n \in 0..MaxEdges }

GraphInputs ==
    {Null, Missing}
    \cup { Object(Array(m), d) :
              m \in { <<>>, << <<"a", ".", "j", "s">>, <<"b", ".", "j", "s">> >> },
              d \in {Null, Missing, NotAnArray} \cup {Array(l) : l \in EdgeLists} }

NoGraph == [nodes |-> <<>>, links |-> <<>>]

GenerateGraph ==
    /\ graph.pc = "idle"
    /\ graph' = [graph EXCEPT !.pc = "done",
                              !.output = GenerateDependencyGraph(graph.input)]
    /\ UNCHANGED notGraph

\* The inputs of a later call: one of a few fixed scans, or the input of an
\* earlier call once more
RepeatInputs ==
    { Null,
      Object(Array(<<>>), Array(<< [from |-> <<"a", ".", "j", "s">>, to |-> <<".", "/", "b">>,
                                    type |-> "import"] >>)),
      Object(Array(<<>>), Array(<< [from |-> <<"x", ".", "t", "s">>, to |-> <<"a", ".", "j", "s">>,
                                    type |-> "import"],
                                   [from |-> <<"a", ".", "j", "s">>, to |-> <<"b", ".", "j", "s">>,
                                    type |-> "import"] >>)) }

\* The caller keeps the returned graph and calls generateDependencyGraph
\* again
CallAgain ==
    /\ graph.pc = "done"
    /\ Len(graph.calls) + 1 < MaxCalls
    /\ \E input \in RepeatInputs \cup {graph.input}
                      \cup {graph.calls[i].input : i \in 1..Len(graph.calls)} :
          graph' = [pc |-> "idle", input |-> input, output |-> NoGraph,
                    calls |-> Append(graph.calls,
                                     [input |-> graph.input, output |-> graph.output])]
    /\ UNCHANGED notGraph

(***************************************************************************)
(* The complexity metrics (analyzeFileComplexity).                         *)
(***************************************************************************)
WordChars ==
    { "a", "b", "c", "d", "e", "f", "g", "h", "i", "j", "k", "l", "m", "n", "o", "p", "q",
      "r", "s", "t", "u", "v", "w", "x", "y", "z", "A", "B", "C", "D", "E", "F", "G", "H",
      "I", "J", "K", "L", "M", "N", "O", "P", "Q", "R", "S", "T", "U", "V", "W", "X", "Y",
      "Z", "0", "1", "2", "3", "4", "5", "6", "7", "8", "9", "_" }
\* \s+, \s*, \w+
Spaces == Cls(Whitespace, "plus")
OptSpaces == Cls(Whitespace, "star")
Word == Cls(WordChars, "plus")

\* A regular expression a|b|...: the sequence of its alternatives; an
\* optional group (?:x)? is written out as the alternative with x followed
\* by the alternative without it.
\* The end of the match at pos: that of the first alternative that matches
\* there; 0 when none does
RECURSIVE AltEndAt(_, _, _, _)
AltEndOr(m, alts, a, s, pos) ==
    IF m # <<>> THEN m[1].end ELSE AltEndAt(alts, a + 1, s, pos)
AltEndAt(alts, a, s, pos) ==
    IF a > Len(alts) THEN 0
    ELSE AltEndOr(MatchFrom(alts[a], 1, s, pos), alts, a, s, pos)

\* (content.match(/a|b|.../g) || []).length: the matches are taken from left
\* to right, each search starting where the previous match ended
RECURSIVE CountMatches(_, _, _)
CountFrom(alts, s, pos, end) ==
    IF end = 0 THEN CountMatches(alts, s, pos + 1)
    ELSE 1 + CountMatches(alts, s, IF end = pos THEN pos + 1 ELSE end)
CountMatches(alts, s, pos) ==
    IF pos > Len(s) THEN 0
    ELSE CountFrom(alts, s, pos, AltEndAt(alts, 1, s, pos))

\* /if|else|for|while|switch|case|\?|&&|\|\||catch/
JsDecisionPoints_NoIf ==
    << <<Lit(<<"e", "l", "s", "e">>)>>, <<Lit(<<"f", "o", "r">>)>>, <<Lit(<<"w", "h", "i", "l", "e">>)>>, <<Lit(<<"s", "w", "i", "t", "c", "h">>)>>,
       <<Lit(<<"c", "a", "s", "e">>)>>, <<Lit(<<"?">>)>>, <<Lit(<<"&", "&">>)>>, <<Lit(<<"|", "|">>)>>, <<Lit(<<"c", "a", "t", "c", "h">>)>> >>

JsDecisionPoints_NoElse ==
    << <<Lit(<<"i", "f">>)>>, <<Lit(<<"f", "o", "r">>)>>, <<Lit(<<"w", "h", "i", "l", "e">>)>>, <<Lit(<<"s", "w", "i", "t", "c", "h">>)>>,
       <<Lit(<<"c", "a", "s", "e">>)>>, <<Lit(<<"?">>)>>, <<Lit(<<"&", "&">>)>>, <<Lit(<<"|", "|">>)>>, <<Lit(<<"c", "a", "t", "c", "h">>)>> >>

JsDecisionPoints ==
    << <<Lit(<<"i", "f">>)>>, <<Lit(<<"e", "l", "s", "e">>)>>, <<Lit(<<"f", "o", "r">>)>>, <<Lit(<<"w", "h", "i", "l", "e">>)>>, <<Lit(<<"s", "w", "i", "t", "c", "h">>)>>,
       <<Lit(<<"c", "a", "s", "e">>)>>, <<Lit(<<"?">>)>>, <<Lit(<<"&", "&">>)>>, <<Lit(<<"|", "|">>)>>, <<Lit(<<"c", "a", "t", "c", "h">>)>> >>

\* /if|elif|else|for|while|except|and|or/
PyDecisionPoints ==
    << <<Lit(<<"i", "f">>)>>, <<Lit(<<"e", "l", "i", "f">>)>>, <<Lit(<<"e", "l", "s", "e">>)>>, <<Lit(<<"f", "o", "r">>)>>, <<Lit(<<"w", "h", "i", "l", "e">>)>>,
       <<Lit(<<"e", "x", "c", "e", "p", "t">>)>>, <<Lit(<<"a", "n", "d">>)>>, <<Lit(<<"o", "r">>)>> >>

JavaDecisionPoints ==
    << <<Lit(<<"i", "f">>)>>, <<Lit(<<"e", "l", "s", "e">>)>>, <<Lit(<<"f", "o", "r">>)>>, <<Lit(<<"w", "h", "i", "l", "e">>)>>, <<Lit(<<"s", "w", "i", "t", "c", "h">>)>>,
       <<Lit(<<"c", "a", "s", "e">>)>>, <<Lit(<<"?">>)>>, <<Lit(<<"&", "&">>)>>, <<Lit(<<"|", "|">>)>>, <<Lit(<<"c", "a", "t", "c", "h">>)>> >>

\* /function\s+\w+\s*\(|const\s+\w+\s*=\s*(?:async\s*)?\(|
\*  \w+\s*:\s*(?:async\s*)?function|\w+\s*=\s*(?:async\s*)?function/
JsFunctions ==
    << <<Lit(<<"f", "u", "n", "c", "t", "i", "o", "n">>), Spaces, Word, OptSpaces, Lit(<<"(">>)>>,
       <<Lit(<<"c", "o", "n", "s", "t">>), Spaces, Word, OptSpaces, Lit(<<"=">>), OptSpaces, Lit(<<"a", "s", "y", "n", "c">>),
         OptSpaces, Lit(<<"(">>)>>,
       <<Lit(<<"c", "o", "n", "s", "t">>), Spaces, Word, OptSpaces, Lit(<<"=">>), OptSpaces, Lit(<<"(">>)>>,
       <<Word, OptSpaces, Lit(<<":">>), OptSpaces, Lit(<<"a", "s", "y", "n", "c">>), OptSpaces, Lit(<<"f", "u", "n", "c", "t", "i", "o", "n">>)>>,
       <<Word, OptSpaces, Lit(<<":">>), OptSpaces, Lit(<<"f", "u", "n", "c", "t", "i", "o", "n">>)>>,
       <<Word, OptSpaces, Lit(<<"=">>), OptSpaces, Lit(<<"a", "s", "y", "n", "c">>), OptSpaces, Lit(<<"f", "u", "n", "c", "t", "i", "o", "n">>)>>,
       <<Word, OptSpaces, Lit(<<"=">>), OptSpaces, Lit(<<"f", "u", "n", "c", "t", "i", "o", "n">>)>> >>

\* /class\s+\w+|interface\s+\w+/
JsClasses ==
    << <<Lit(<<"c", "l", "a", "s", "s">>), Spaces, Word>>, <<Lit(<<"i", "n", "t", "e", "r", "f", "a", "c", "e">>), Spaces, Word>> >>

\* /def\s+\w+\s*\(/ and /class\s+\w+/
PyFunctions == << <<Lit(<<"d", "e", "f">>), Spaces, Word, OptSpaces, Lit(<<"(">>)>> >>
PyClasses == << <<Lit(<<"c", "l", "a", "s", "s">>), Spaces, Word>> >>

\* /(?:public|private|protected|static|\s)\s+\w+\s+\w+\s*\(/
JavaFunctions ==
    << <<Lit(<<"p", "u", "b", "l", "i", "c">>), Spaces, Word, Spaces, Word, OptSpaces, Lit(<<"(">>)>>,
       <<Lit(<<"p", "r", "i", "v", "a", "t", "e">>), Spaces, Word, Spaces, Word, OptSpaces, Lit(<<"(">>)>>,
       <<Lit(<<"p", "r", "o", "t", "e", "c", "t", "e", "d">>), Spaces, Word, Spaces, Word, OptSpaces, Lit(<<"(">>)>>,
       <<Lit(<<"s", "t", "a", "t", "i", "c">>), Spaces, Word, Spaces, Word, OptSpaces, Lit(<<"(">>)>>,
       <<Cls(Whitespace, "one"), Spaces, Word, Spaces, Word, OptSpaces, Lit(<<"(">>)>> >>

\* The bucket of an extension: its function, class and decision-point
\* expressions; <<>> for an extension outside the three buckets
Bucket(ext) ==
    IF ext \in {<<"j", "s">>, <<"t", "s">>, <<"j", "s", "x">>, <<"t", "s", "x">>}
    THEN << [functions |-> JsFunctions, classes |-> JsClasses, decisions |-> JsDecisionPoints] >>
    ELSE IF ext = <<"p", "y">>
    THEN << [functions |-> PyFunctions, classes |-> PyClasses, decisions |-> PyDecisionPoints] >>
    ELSE IF ext = <<"j", "a", "v", "a">>
    THEN << [functions |-> JavaFunctions, classes |-> JsClasses, decisions |-> JavaDecisionPoints] >>
    ELSE <<>>

\* content.split('\n').length
LineCount(content) == 1 + Cardinality({i \in 1..Len(content) : content[i] = "\n"})

MetricsWith(bucket, content) ==
    [lines |-> LineCount(content),
     characters |-> Len(content),
     functions |-> IF bucket = <<>> THEN 0 ELSE CountMatches(bucket[1].functions, content, 1),
     classes |-> IF bucket = <<>> THEN 0 ELSE CountMatches(bucket[1].classes, content, 1),
     complexity |-> IF bucket = <<>> THEN 0 ELSE CountMatches(bucket[1].decisions, content, 1)]

Metrics(filePath, content) == MetricsWith(Bucket(ToLowerCase(ExtName(filePath))), content)

NoMetrics == [lines |-> 0, characters |-> 0, functions |-> 0, classes |-> 0, complexity |-> 0]

\* The value analyzeFileComplexity returns: {metrics}, {metrics, aiAnalysis}
\* or {error}.  aiOutcome: "noKey" (OPENAI_API_KEY not set), "ok", "failed"
ResultWith(readable, metrics, aiOutcome) ==
    IF ~readable
    THEN [kind |-> "error", metrics |-> NoMetrics, aiAnalysis |-> FALSE]
    ELSE [kind |-> "metrics", metrics |-> metrics, aiAnalysis |-> (aiOutcome = "ok")]

AiOutcomes == {"noKey", "ok", "failed"}

(***************************************************************************)
(* The files analyzeFileComplexity is run on.                              *)
(***************************************************************************)
ContentTokens ==
    { <<"i", "f">>, <<"e", "l">>, <<"s", "e">>, <<"f", "o", "r">>, <<"o", "r">>, <<"&">> }

RECURSIVE TokenStrings(_)
TokenStrings(n) ==
    IF n = 0 THEN { <<>> }
    ELSE TokenStrings(n - 1)
         \cup { s \o t : s \in TokenStrings(n - 1), t \in ContentTokens }

\* The arrangements of three `if` and two `else`, joined by a separator
RECURSIVE Joined(_, _, _)
Joined(words, sep, i) ==
    IF i > Len(words) THEN <<>>
    ELSE words[i] \o (IF i < Len(words) THEN sep ELSE <<>>) \o Joined(words, sep, i + 1)

BranchTexts ==
    { Joined(w, sep, 1) :
        w \in { v \in [1..5 -> {<<"i", "f">>, <<"e", "l", "s", "e">>}] :
                  Cardinality({i \in 1..5 : v[i] = <<"i", "f">>}) = 3 },
        sep \in { <<" ">>, <<"\n">> } }

SampleTexts ==
    { <<"f", "u", "n", "c", "t", "i", "o", "n", " ", "f", "(", "a", ")">>, <<"c", "o", "n", "s", "t", " ", "f", " ", "=", " ", "a", "s", "y", "n", "c", " ", "(", "a", ")">>, <<"c", "l", "a", "s", "s", " ", "A", "\n", "f", ":", " ", "f", "u", "n", "c", "t", "i", "o", "n">>,
      <<"d", "e", "f", " ", "f", "(", "a", ")", " ", "o", "r", " ", "b">>, <<" ", "s", "t", "a", "t", "i", "c", " ", "i", "n", "t", " ", "f", "(", ")">>, <<"i", "n", "t", "e", "r", "f", "a", "c", "e", " ", "I", "\n", "a", " ", "?", " ", "b", " ", ":", " ", "c">> }

ComplexityFiles ==
    { File(name, content) :
        name \in { <<"a", ".", "j", "s">>, <<"m", ".", "p", "y">> },
        content \in TokenStrings(MaxTokens) }
    \cup { File(name, content) :
        name \in { <<"a", ".", "j", "s">>, <<"m", ".", "p", "y">>,
                   <<"A", ".", "j", "a", "v", "a">>, <<"c", ".", "m", "d">> },
        content \in BranchTexts \cup SampleTexts }
    \cup { [File(<<"a", ".", "j", "s">>, <<"i", "f">>) EXCEPT !.readOk = FALSE] }

\* content with `if` inserted after its first p characters
InsertIf(content, p) ==
    SubSeq(content, 1, p) \o <<"i", "f">> \o SubSeq(content, p + 1, Len(content))

NoResult == [kind |-> "none", metrics |-> NoMetrics, aiAnalysis |-> FALSE]

CxIdle ==
    [pc |-> "idle", file |-> File(<<"a", ".", "j", "s">>, <<>>), result |-> NoResult,
     before |-> <<>>]

\* One call of analyzeFileComplexity(filePath)
AnalyzeFileComplexity ==
    /\ cx.pc = "idle"
    /\ LET readable == cx.file.statOk /\ cx.file.readOk
           metrics == IF readable THEN Metrics(cx.file.name, cx.file.content)
                      ELSE NoMetrics
       IN \E aiOutcome \in AiOutcomes :
             cx' = [cx EXCEPT !.pc = "done",
                              !.result = ResultWith(readable, metrics, aiOutcome)]
    /\ UNCHANGED notCx

\* The file gets one more `if` somewhere and is analysed again
EditFile ==
    /\ cx.pc = "done"
    /\ cx.file.readOk
    /\ Len(cx.before) < MaxInsertions
    /\ \E p \in 0..Len(cx.file.content) :
          cx' = [pc |-> "idle",
                 file |-> [cx.file EXCEPT !.content = InsertIf(cx.file.content, p)],
                 result |-> NoResult,
                 before |-> Append(cx.before, [content |-> cx.file.content,
                                                result |-> cx.result])]
    /\ UNCHANGED notCx

(***************************************************************************)
(* The business-insights handler.                                          *)
(***************************************************************************)
\* String.prototype.includes
IncludesText(s, sub) ==
    \E i \in 1..(Len(s) - Len(sub) + 1) : SubSeq(s, i, i + Len(sub) - 1) = sub

\* A response: its status and its error, either one of the handler's fixed
\* texts or the message of the error caught
Respond(status, text, message, thrown) ==
    [status |-> status, error |-> [text |-> text, message |-> message], thrown |-> thrown]

NotThrown == << >>
Thrown(message) == << message >>

\* The catch block: the response for a caught error with this message
CatchResponse(message) ==
    IF message # <<>> /\ IncludesText(message, <<"A", "P", "I", " ", "k", "e", "y">>)
    THEN Respond(500, "OpenAI API key is invalid or has expired", <<>>, Thrown(message))
    ELSE IF message # <<>> /\ IncludesText(message, <<"t", "i", "m", "e", "o", "u", "t">>)
    THEN Respond(500, "The request to generate business insights timed out", <<>>,
                 Thrown(message))
    ELSE IF message # <<>> /\ IncludesText(message, <<"r", "a", "t", "e", " ", "l", "i", "m", "i", "t">>)
    THEN Respond(429, "OpenAI rate limit reached", <<>>, Thrown(message))
    ELSE IF message # <<>>
    THEN Respond(500, "error.message", message, Thrown(message))
    ELSE Respond(500, "Failed to generate business insights", <<>>, Thrown(message))

\* After the session and body checks: getOpenAIClient, generateDocumentation
\* and the checks of their results; filesFirst: the version of the handler
\* that checks analysisData.files before the try block
Generate(filesFirst, hasFiles, client, doc, message) ==
    IF filesFirst /\ ~hasFiles
    THEN Respond(400, "Repository analysis data is incomplete", <<>>, NotThrown)
    ELSE IF client = "throws" THEN CatchResponse(message)
    ELSE IF client = "null"
    THEN Respond(400, "OpenAI API key not found", <<>>, NotThrown)
    ELSE IF ~hasFiles
    THEN Respond(400, "Repository analysis data is incomplete", <<>>, NotThrown)
    ELSE IF doc = "throws" THEN CatchResponse(message)
    ELSE IF doc = "error"
    THEN Respond(500, "businessInsights.error", <<>>, NotThrown)
    ELSE IF doc = "short"
    THEN Respond(500, "Failed to generate meaningful business insights", <<>>, NotThrown)
    ELSE Respond(200, "", <<>>, NotThrown)

\* handler(req, res)
Handle(version, method, session, analysisData, client, doc, message) ==
    IF version = "getServerSession" /\ method # "POST"
    THEN Respond(405, "Method not allowed", <<>>, NotThrown)
    ELSE IF session = "null"
    THEN Respond(401, "Not authenticated", <<>>, NotThrown)
    ELSE IF session = "noAccessToken"
    THEN Respond(401, IF version = "getServerSession"
                      THEN "Invalid session: missing access token"
                      ELSE "Not authenticated", <<>>, NotThrown)
    ELSE IF analysisData = "missing"
    THEN Respond(400, "No analysis data provided", <<>>, NotThrown)
    ELSE Generate(version = "getServerSession", analysisData = "files", client, doc, message)

HandlerVersions == {"getSession", "getServerSession"}
\* The messages of the errors that getOpenAIClient or generateDocumentation
\* throw
ErrorMessages ==
    { <<>>, <<"I", "n", "v", "a", "l", "i", "d", " ", "A", "P", "I", " ", "k", "e", "y">>, <<"R", "e", "q", "u", "e", "s", "t", " ", "t", "i", "m", "e", "o", "u", "t">>, <<"r", "a", "t", "e", " ", "l", "i", "m", "i", "t", " ", "e", "x", "c", "e", "e", "d", "e", "d">>,
      <<"A", "P", "I", " ", "k", "e", "y", " ", "c", "h", "e", "c", "k", " ", "t", "i", "m", "e", "o", "u", "t">>, <<"t", "i", "m", "e", "o", "u", "t", " ", "a", "f", "t", "e", "r", " ", "r", "a", "t", "e", " ", "l", "i", "m", "i", "t">>, <<"b", "o", "o", "m">> }

BiIdle == [version |-> "getSession", handled |-> 0, responses |-> {}]

\* One business-insights request, from its arrival to its response
BusinessInsights ==
    /\ bi.handled < MaxInsightRequests
    /\ \E method \in {"POST", "GET"}, session \in {"null", "noAccessToken", "ok"},
          analysisData \in {"missing", "noFiles", "files"},
          client \in {"null", "ok", "throws"},
          doc \in {"ok", "short", "error", "throws"},
          message \in ErrorMessages :
          bi' = [bi EXCEPT !.handled = @ + 1,
                           !.responses = @ \cup {Handle(bi.version, method, session,
                                                        analysisData, client, doc, message)}]
    /\ UNCHANGED notBi

(***************************************************************************)
(* The JSON-file stores: data/db.json of the auth adapter                  *)
(* (JSONFileAdapter), data/repositories.json (JsonDb) and data/config.json *)
(* (the config handler).  Every operation reads the whole file and writes  *)
(* the whole file back.                                                    *)
(***************************************************************************)
EmptyData == [users |-> <<>>, accounts |-> <<>>, sessions |-> <<>>]
EmptyFiles == [data |-> EmptyData, repositories |-> <<>>, config |-> [openaiApiKey |-> ""]]

\* readData(): the parsed file, or the empty store when reading fails
ReadData(files, readOk) == IF readOk THEN files.data ELSE EmptyData

\* The days a new session lives, in the unit of the store's clock
SessionLifetime == 30

\* The operations that write a store
\* createUser(user): lines 424-436
NewUser(user, now) == [id |-> now, email |-> user]
\* linkAccount(account): lines 481-492
NewAccount(account, now) == [id |-> now, userId |-> account]
\* createSession(session): lines 494-521
UnexpiredSessions(sessions, now) == SelectSeq(sessions, LAMBDA s : s.expires > now)
NewSession(session, now) ==
    [id |-> now, sessionToken |-> session, expires |-> now + SessionLifetime]
\* saveRepository(repository): lines 36-59; id "" stands for no id given
RECURSIVE IndexOfId(_, _, _)
IndexOfId(repos, id, i) ==
    IF i > Len(repos) THEN 0
    ELSE IF repos[i].id = id THEN i ELSE IndexOfId(repos, id, i + 1)
SavedRepositories(repos, repository, now) ==
    IF IndexOfId(repos, <<repository.id>>, 1) > 0
    THEN [repos EXCEPT ![IndexOfId(repos, <<repository.id>>, 1)] =
             [id |-> <<repository.id>>, name |-> repository.name]]
    ELSE Append(repos, [id |-> IF repository.id # "" THEN <<repository.id>>
                               ELSE <<"repo_", now>>,
                        name |-> repository.name])

\* What an operation writes into its file, from the files as it read them
ContentToWrite(op, files, now, readOk) ==
    IF op.kind = "createUser"
    THEN [files EXCEPT !.data = [ReadData(files, readOk) EXCEPT
                                   !.users = Append(@, NewUser(op.arg, now))]]
    ELSE IF op.kind = "linkAccount"
    THEN [files EXCEPT !.data = [ReadData(files, readOk) EXCEPT
                                   !.accounts = Append(@, NewAccount(op.arg, now))]]
    ELSE IF op.kind = "createSession"
    THEN [files EXCEPT !.data = [ReadData(files, readOk) EXCEPT
                                   !.sessions = Append(UnexpiredSessions(@, now),
                                                       NewSession(op.arg, now))]]
    ELSE IF op.kind = "saveRepository"
    THEN [files EXCEPT !.repositories = SavedRepositories(@, op.arg, now)]
    ELSE [files EXCEPT !.config = [(IF readOk THEN @ ELSE [openaiApiKey |-> ""])
                                      EXCEPT !.openaiApiKey = op.arg]]

\* The file an operation reads and rewrites
StoreOf(op) ==
    IF op.kind \in {"createUser", "linkAccount", "createSession"} THEN "data"
    ELSE IF op.kind = "saveRepository" THEN "repositories"
    ELSE "config"

\* fs.writeFileSync of the operation's file
WriteStore(op, files, content) ==
    IF StoreOf(op) = "data" THEN [files EXCEPT !.data = content.data]
    ELSE IF StoreOf(op) = "repositories"
    THEN [files EXCEPT !.repositories = content.repositories]
    ELSE [files EXCEPT !.config = content.config]

\* The awaits of an operation, where other operations of the process can
\* run: the config handler awaits getSession before it reads the file; no
\* operation awaits between its read and its write
AwaitsBeforeRead(op) == op.kind = "configPost"

AwaitsBeforeWrite_Always(op) == TRUE

AwaitsBeforeWrite(op) == FALSE

\* The steps of an operation, in the segments that run without interruption
\* by another operation of the same process; operations of two processes
\* interleave at every file access
Segments(op, sameProcess) ==
    IF sameProcess
    THEN (IF AwaitsBeforeRead(op) THEN << <<>> >> ELSE <<>>)
         \o (IF AwaitsBeforeWrite(op) THEN << <<"read">>, <<"write">> >>
             ELSE << <<"read", "write">> >>)
    ELSE << <<"read">>, <<"write">> >>

\* One segment of an operation: st = [files, local], local the content the
\* operation holds for writing
RECURSIVE RunSteps(_, _, _, _, _)
RunSteps(op, steps, i, st, now) ==
    IF i > Len(steps) THEN st
    ELSE RunSteps(op, steps, i + 1,
            IF steps[i] = "read"
            THEN [st EXCEPT !.local = ContentToWrite(op, st.files, now, TRUE)]
            ELSE [st EXCEPT !.files = WriteStore(op, st.files, st.local)],
            now)

\* The whole operation, run on its own
RunAlone(op, files, now) ==
    WriteStore(op, files, ContentToWrite(op, files, now, TRUE))

\* The orders in which the segments of two operations can run: sequences of
\* 1 and 2 with na ones and nb twos
RECURSIVE Merges(_, _)
Merges(na, nb) ==
    IF na = 0 /\ nb = 0 THEN { <<>> }
    ELSE (IF na > 0 THEN { <<1>> \o m : m \in Merges(na - 1, nb) } ELSE {})
         \cup (IF nb > 0 THEN { <<2>> \o m : m \in Merges(na, nb - 1) } ELSE {})

\* The files after two operations ran with their segments in the order
\* `schedule`
RECURSIVE RunSchedule(_, _, _, _, _, _, _)
RunSchedule(ops, segs, schedule, i, st, done, now) ==
    IF i > Len(schedule) THEN st.files
    ELSE RunSchedule(ops, segs, schedule, i + 1,
            [files |-> RunSteps(ops[schedule[i]], segs[schedule[i]][done[schedule[i]] + 1], 1,
                                [files |-> st.files, local |-> st.locals[schedule[i]]],
                                now).files,
             locals |-> [st.locals EXCEPT ![schedule[i]] =
                            RunSteps(ops[schedule[i]], segs[schedule[i]][done[schedule[i]] + 1], 1,
                                     [files |-> st.files, local |-> st.locals[schedule[i]]],
                                     now).local]],
            [done EXCEPT ![schedule[i]] = @ + 1], now)

\* Every state of the files that two concurrent operations can leave
Outcomes(a, b, sameProcess, files, now) ==
    { RunSchedule(<<a, b>>, <<Segments(a, sameProcess), Segments(b, sameProcess)>>,
                  schedule, 1, [files |-> files, locals |-> <<files, files>>],
                  <<0, 0>>, now)
      : schedule \in Merges(Len(Segments(a, sameProcess)), Len(Segments(b, sameProcess))) }

\* getUser(id): lines 438-442; <<>> stands for null
RECURSIVE FindUser(_, _, _)
FindUser(users, id, i) ==
    IF i > Len(users) THEN <<>>
    ELSE IF users[i].id = id THEN <<users[i]>> ELSE FindUser(users, id, i + 1)

Emails == {"a@x", "b@x"}
ApiKeys == {"", "k1", "k2"}
StoreOps ==
    [kind : {"createUser"}, arg : Emails]
    \cup [kind : {"linkAccount"}, arg : {"a1"}]
    \cup [kind : {"createSession"}, arg : {"t1"}]
    \cup [kind : {"saveRepository"}, arg : [id : {"", "r1"}, name : {"n1", "n2"}]]
    \cup [kind : {"configPost"}, arg : ApiKeys]

DbIdle == [now |-> 0, files |-> EmptyFiles, ops |-> 0, ioFailed |-> FALSE,
           created |-> <<>>, found |-> <<>>, race |-> <<>>]

\* The clock of Date.now() advances
StoreTick ==
    /\ db.now < MaxNow
    /\ db' = [db EXCEPT !.now = @ + 1]
    /\ UNCHANGED notDb

\* One writer operation, start to end.  readOk, writeOk: whether
\* readFileSync and writeFileSync succeed.  saveRepository has no try/catch,
\* so a failed read throws before anything is written
StoreWrite ==
    /\ db.ops < MaxStoreOps
    /\ \E op \in StoreOps, io \in {<<TRUE, TRUE>>, <<FALSE, TRUE>>, <<TRUE, FALSE>>} :
          db' = [db EXCEPT
                   !.ops = @ + 1,
                   !.ioFailed = @ \/ ~io[1] \/ ~io[2],
                   !.files = IF io[2] /\ (io[1] \/ op.kind # "saveRepository")
                             THEN WriteStore(op, @, ContentToWrite(op, @, db.now, io[1]))
                             ELSE @,
                   !.created = IF op.kind = "createUser"
                               THEN Append(@, NewUser(op.arg, db.now)) ELSE @]
    /\ UNCHANGED notDb

\* getUser(id) for an id that createUser returned
GetUser ==
    /\ db.ops < MaxStoreOps
    /\ \E i \in 1..Len(db.created) :
          db' = [db EXCEPT
                   !.ops = @ + 1,
                   !.found = Append(@, [call |-> i,
                                        user |-> FindUser(db.files.data.users,
                                                          db.created[i].id, 1)])]
    /\ UNCHANGED notDb

\* Two writer operations on the same store, invoked concurrently
ConcurrentWrites ==
    /\ db.ops + 2 <= MaxStoreOps
    /\ db.race = <<>>
    /\ \E a \in StoreOps, b \in StoreOps, sameProcess \in BOOLEAN :
          /\ StoreOf(a) = StoreOf(b)
          /\ \E outcome \in Outcomes(a, b, sameProcess, db.files, db.now) :
                db' = [db EXCEPT
                         !.ops = @ + 2,
                         !.files = outcome,
                         !.created = @ \o (IF a.kind = "createUser"
                                           THEN <<NewUser(a.arg, db.now)>> ELSE <<>>)
                                       \o (IF b.kind = "createUser"
                                           THEN <<NewUser(b.arg, db.now)>> ELSE <<>>),
                         !.race = <<[a |-> a, b |-> b, sameProcess |-> sameProcess,
                                     before |-> db.files, now |-> db.now,
                                     outcomes |-> Outcomes(a, b, sameProcess,
                                                           db.files, db.now)]>>]
    /\ UNCHANGED notDb

(***************************************************************************)
(* The configuration handler (/api/config) and getOpenAIClient.  Two runs  *)
(* of the server are kept side by side: they receive the same requests and *)
(* differ only in the key values that the POST requests save.              *)
(***************************************************************************)
\* readConfig(): the parsed file, or the default configuration when reading
\* fails
ReadConfig(server, readOk) ==
    IF readOk THEN server.file ELSE [openaiApiKey |-> ""]

\* writeConfig(config): writes the file, then sets process.env when the key
\* is not empty; FALSE when writing fails
WriteConfig(server, config, writeOk) ==
    IF ~writeOk THEN server
    ELSE [server EXCEPT !.file = config,
                        !.env = IF config.openaiApiKey # "" THEN config.openaiApiKey
                                ELSE @]

Mask_Unmasked(key) == key

\* config.openaiApiKey ? '********' : ''
Mask(key) == IF key # "" THEN "********" ELSE ""

\* The body of the GET response
MaskedConfig(server, readOk) ==
    [openaiApiKey |-> Mask(ReadConfig(server, readOk).openaiApiKey),
     hasOpenaiApiKey |-> (ReadConfig(server, readOk).openaiApiKey # "") \/ server.env # "",
     hasEnvironmentKey |-> server.env # ""]

NoBody == [openaiApiKey |-> "", hasOpenaiApiKey |-> FALSE, hasEnvironmentKey |-> FALSE]
Response(status, body) == [status |-> status, body |-> body]

\* GET /api/config
ConfigGet(server, session, readOk) ==
    IF ~session THEN Response(401, NoBody)
    ELSE Response(200, MaskedConfig(server, readOk))

\* POST /api/config: key is the openaiApiKey of the body, isString whether
\* it is a string
ConfigPostResponse(session, isString, writeOk) ==
    IF ~session THEN Response(401, NoBody)
    ELSE IF ~isString THEN Response(400, NoBody)
    ELSE IF writeOk THEN Response(200, NoBody)
    ELSE Response(500, NoBody)

ConfigPost(server, session, isString, key, readOk, writeOk) ==
    IF ~session \/ ~isString THEN server
    ELSE WriteConfig(server, [ReadConfig(server, readOk) EXCEPT !.openaiApiKey = key],
                     writeOk)

\* getOpenAIApiKey(): the key of serverRuntimeConfig, fixed when the server
\* started, else the key of process.env, else null ("" here)
GetOpenAIApiKey(server) ==
    IF server.runtime # "" THEN server.runtime
    ELSE IF server.env # "" THEN server.env
    ELSE ""

\* getOpenAIClient(): the key the client is built with, "" for no client
GetOpenAIClient(server) == GetOpenAIApiKey(server)

\* The server as it starts: next.config.js copies process.env.OPENAI_API_KEY
\* into serverRuntimeConfig; ensureConfigFileExists writes an empty key
StartedServer(startKey) ==
    [file |-> [openaiApiKey |-> ""], env |-> startKey, runtime |-> startKey]

StartKeys == {"", "s"}
PostBodies == {"notString", "empty", "secret1", "secret2"}

\* The key a POST body carries in each of the two runs
KeyOf(run, body) ==
    IF body \in {"notString", "empty"} THEN ""
    ELSE IF run = 1 THEN (IF body = "secret1" THEN "k1" ELSE "k2")
    ELSE (IF body = "secret1" THEN "q1" ELSE "q2")

CfgIdle == [runs |-> <<StartedServer(""), StartedServer("")>>, started |-> "",
            log |-> <<>>]

\* A GET request, answered in both runs
CfgGet ==
    /\ Len(cfg.log) < MaxConfigRequests
    /\ \E session \in BOOLEAN, readOk \in BOOLEAN :
          cfg' = [cfg EXCEPT !.log = Append(@,
                    [op |-> "GET", body |-> "none", session |-> session,
                     responses |-> <<ConfigGet(cfg.runs[1], session, readOk),
                                     ConfigGet(cfg.runs[2], session, readOk)>>,
                     clients |-> <<"", "">>])]
    /\ UNCHANGED notCfg

\* A POST request, handled in both runs
CfgPost ==
    /\ Len(cfg.log) < MaxConfigRequests
    /\ \E session \in BOOLEAN, body \in PostBodies,
          io \in {<<TRUE, TRUE>>, <<FALSE, TRUE>>, <<TRUE, FALSE>>} :
          cfg' = [cfg EXCEPT
                    !.runs = [r \in {1, 2} |->
                                ConfigPost(cfg.runs[r], session, body # "notString",
                                           KeyOf(r, body), io[1], io[2])],
                    !.log = Append(@,
                      [op |-> "POST", body |-> body, session |-> session,
                       responses |-> <<ConfigPostResponse(session, body # "notString", io[2]),
                                       ConfigPostResponse(session, body # "notString", io[2])>>,
                       clients |-> <<"", "">>])]
    /\ UNCHANGED notCfg

\* A request with another method
CfgOtherMethod ==
    /\ Len(cfg.log) < MaxConfigRequests
    /\ \E session \in BOOLEAN :
          cfg' = [cfg EXCEPT !.log = Append(@,
                    [op |-> "OTHER", body |-> "none", session |-> session,
                     responses |-> <<Response(IF session THEN 405 ELSE 401, NoBody),
                                     Response(IF session THEN 405 ELSE 401, NoBody)>>,
                     clients |-> <<"", "">>])]
    /\ UNCHANGED notCfg

\* A call of getOpenAIClient in both runs
CfgGetClient ==
    /\ Len(cfg.log) < MaxConfigRequests
    /\ cfg' = [cfg EXCEPT !.log = Append(@,
                 [op |-> "client", body |-> "none", session |-> TRUE,
                  responses |-> <<Response(0, NoBody), Response(0, NoBody)>>,
                  clients |-> <<GetOpenAIClient(cfg.runs[1]),
                                GetOpenAIClient(cfg.runs[2])>>])]
    /\ UNCHANGED notCfg

(***************************************************************************)
(* The advanced-analysis handler after the checkout: the sample of files   *)
(* whose complexity is analysed, and the response.                         *)
(***************************************************************************)
\* const maxFilesToAnalyze = 10
MaxFilesToAnalyze == 10

\* What analyzeDependencies hands to the handler as dependencies.modules:
\* no array (JSON of dependency-cruiser without modules), the paths the
\* scanner returned (strings), or dependency-cruiser's module objects
ModulesValues ==
    { [isArray |-> FALSE, entries |-> "none", length |-> 0] }
    \cup [isArray : {TRUE}, entries : {"paths", "objects"}, length : 0..MaxModules]

Slice_All(length, n) == 1..length

\* Array.prototype.slice(0, n) of a list of `length` entries: the indices kept
Slice(length, n) == 1..(IF n < length THEN n ELSE length)

\* One entry of fileComplexityAnalysis
Entry(from, index) == [from |-> from, index |-> index]

\* if (modules.length === 0) { ... }: the files found in the checkout are
\* analysed, at most maxFilesToAnalyze of them.  found: the number of source
\* files findSourceFiles pushed (0 when the search failed)
SampleSourceFiles(a, found) ==
    IF a.modules.length = 0 /\ found > 0
    THEN [a EXCEPT
            !.fileComplexityAnalysis =
                @ \o [k \in 1..Cardinality(Slice(found, MaxFilesToAnalyze)) |->
                        Entry("sourceFiles", k)],
            !.filesAnalyzed = @ + Cardinality(Slice(found, MaxFilesToAnalyze))]
    ELSE a

\* if (fileComplexityAnalysis.length < 3 && modules.length > 0) { ... }: an
\* entry is pushed for every module unless path.join(repoDir, file) throws,
\* as it does for a module that is not a string
SampleModules(a) ==
    IF Len(a.fileComplexityAnalysis) < 3 /\ a.modules.length > 0
    THEN LET remainingToAnalyze ==
                 IF MaxFilesToAnalyze - a.filesAnalyzed < a.modules.length
                 THEN MaxFilesToAnalyze - a.filesAnalyzed ELSE a.modules.length
             pushed == IF a.modules.entries = "paths"
                       THEN Cardinality(Slice(a.modules.length, remainingToAnalyze))
                       ELSE 0
         IN [a EXCEPT
               !.fileComplexityAnalysis = @ \o [k \in 1..pushed |-> Entry("modules", k)],
               !.filesAnalyzed = @ + pushed]
    ELSE a

\* The three example files
ExampleFiles == << Entry("example", 1), Entry("example", 2), Entry("example", 3) >>

\* if (fileComplexityAnalysis.length === 0) { push the example files }
SampleFallback(a) ==
    IF Len(a.fileComplexityAnalysis) = 0
    THEN [a EXCEPT !.fileComplexityAnalysis = ExampleFiles]
    ELSE a

AdvIdle ==
    [pc |-> "idle", modules |-> [isArray |-> FALSE, entries |-> "none", length |-> 0],
     fileComplexityAnalysis |-> <<>>, filesAnalyzed |-> 0, aiAnalysis |-> "null",
     status |-> 0]

\* analyzeDependencies and generateDependencyGraph return, or one of them (or
\* the clone before them) throws and the handler answers 500
AdvAnalyzeDependencies ==
    /\ adv.pc = "idle"
    /\ \/ \E modules \in ModulesValues :
             adv' = [adv EXCEPT !.pc = "sourceFiles",
                       !.modules = IF modules.isArray THEN modules
                                   ELSE [isArray |-> FALSE, entries |-> "none", length |-> 0]]
       \/ adv' = [adv EXCEPT !.pc = "done", !.status = 500]
    /\ UNCHANGED notAdv

\* The search of the checkout for source files and their analysis
AdvSampleSourceFiles ==
    /\ adv.pc = "sourceFiles"
    /\ \E found \in 0..MaxSourceFiles :
          adv' = [SampleSourceFiles(adv, found) EXCEPT !.pc = "modules"]
    /\ UNCHANGED notAdv

\* The analysis of the modules, then the example files when the list is empty
AdvSampleModules ==
    /\ adv.pc = "modules"
    /\ adv' = [SampleFallback(SampleModules(adv)) EXCEPT !.pc = "ai"]
    /\ UNCHANGED notAdv

\* The AI analysis (skipped without a client, caught when it fails) and the
\* response
AdvRespond ==
    /\ adv.pc = "ai"
    /\ \E aiAnalysis \in {"null", "ok", "error"} :
          adv' = [adv EXCEPT !.pc = "done", !.aiAnalysis = aiAnalysis, !.status = 200]
    /\ UNCHANGED notAdv

(***************************************************************************)
(* The analyze page: its React state, its handlers and its effects.  A     *)
(* handler or effect reads the state of the render it was created in (c)   *)
(* and queues updates (s); after an event the page renders and runs its    *)
(* effects until no effect changes the state.                              *)
(***************************************************************************)
Tabs == {"overview", "dependencies", "quality", "strategic", "business"}
AdvancedTabs == {"dependencies", "quality", "strategic", "business"}

\* setLoading(kind); setError(null); ... await fetch(...)
StartFetch(s, kind) ==
    [s EXCEPT !.loading = kind, !.error = "null", !.inflight = @ \cup {kind}]

\* fetchBasicAnalysis
FetchBasicAnalysis(c, s) ==
    IF c.loading # "null" THEN s ELSE StartFetch(s, "basic")

\* fetchAdvancedAnalysis
FetchAdvancedAnalysis(c, s) ==
    IF c.loading # "null" THEN s
    ELSE [StartFetch(s, "advanced") EXCEPT !.awaitsAdvanced = FALSE]

\* fetchBusinessInsights
FetchBusinessInsights(c, s) ==
    IF ~c.advancedAnalysis \/ ~c.basicAnalysis \/ c.loading # "null"
       \/ c.hasAttemptedBusinessFetch
    THEN s
    ELSE [StartFetch(s, "business") EXCEPT
            !.hasAttemptedBusinessFetch = TRUE,
            !.requestedAfterFailure = @ \/ s.failedSinceUserAction,
            !.failedSinceUserAction = FALSE,
            !.requestsSinceUserAction = @ + 1,
            !.requestedUnready = @ \/ ~s.basicAnalysis \/ ~s.advancedAnalysis
                                   \/ s.inflight # {}]

\* useEffect: load basic analysis when the component mounts
BasicEffect(c, s) ==
    IF ~c.basicAnalysis /\ c.loading = "null" /\ ~c.hasAttemptedFetch
    THEN FetchBasicAnalysis(c, [s EXCEPT !.hasAttemptedFetch = TRUE])
    ELSE s

\* useEffect: load business insights when advanced analysis is loaded and
\* the business tab is active
BusinessEffect(c, s) ==
    IF c.activeTab = "business" /\ c.advancedAnalysis /\ c.loading = "null"
       /\ c.businessInsights # "documentation" /\ ~c.hasAttemptedBusinessFetch
    THEN FetchBusinessInsights(c, s)
    ELSE s

\* useEffect: save business insights to sessionStorage
SaveEffect(c, s) ==
    IF c.businessInsights = "documentation" THEN [s EXCEPT !.stored = TRUE] ELSE s

\* useEffect: load business insights from sessionStorage
LoadEffect(c, s) ==
    IF c.businessInsights = "null" /\ c.loading = "null"
       /\ ~c.hasAttemptedBusinessFetch /\ c.stored
    THEN [s EXCEPT !.businessInsights = "documentation",
                   !.hasAttemptedBusinessFetch = TRUE]
    ELSE s

\* The effects of one render, in the order they are declared
Effects(c) == LoadEffect(c, SaveEffect(c, BusinessEffect(c, BasicEffect(c, c))))

\* Render and run the effects until the state is stable
RECURSIVE Settle(_)
Settle(s) == IF Effects(s) = s THEN s ELSE Settle(Effects(s))

\* handleTabChange(tab)
HandleTabChange(c, tab) ==
    LET selected == [c EXCEPT !.activeTab = tab,
                              !.awaitsAdvanced = tab \in AdvancedTabs /\ ~c.advancedAnalysis
                                                 /\ "advanced" \notin c.inflight,
                              !.requestsSinceUserAction = 0,
                              !.failedSinceUserAction = @ /\ tab # "business"]
        fetched == IF tab \in AdvancedTabs /\ ~c.advancedAnalysis /\ c.loading = "null"
                   THEN FetchAdvancedAnalysis(c, selected)
                   ELSE selected
    IN IF tab = "business" /\ c.businessInsights = "null"
       THEN [fetched EXCEPT !.hasAttemptedBusinessFetch = FALSE]
       ELSE fetched

\* error.includes('business insights')
IncludesBusinessInsights(error) == error = "business insights"

\* onClick of the Retry button
HandleRetry(c) ==
    LET clicked == [c EXCEPT !.requestsSinceUserAction = 0,
                             !.failedSinceUserAction = FALSE,
                             !.awaitsAdvanced = FALSE]
    IN IF c.loading = "basic" \/ ~c.basicAnalysis
       THEN FetchBasicAnalysis(c, [clicked EXCEPT !.hasAttemptedFetch = FALSE])
       ELSE IF c.activeTab = "business" /\ IncludesBusinessInsights(c.error)
       THEN FetchBusinessInsights(c, [clicked EXCEPT !.hasAttemptedBusinessFetch = FALSE])
       ELSE FetchAdvancedAnalysis(c, clicked)

\* What a fetch and the reading of its response give
FetchResults(kind) ==
    IF kind = "business"
    THEN {"documentation", "analysis", "empty", "business insights", "other"}
    ELSE {"data", "failed"}

\* The rest of a fetch function after its await: try, catch, finally
AfterFetch(s, kind, result) ==
    LET landed == [s EXCEPT !.inflight = @ \ {kind}] IN
    IF s.mounted # "yes" THEN landed
    ELSE IF kind = "basic"
    THEN IF result = "data"
         THEN [landed EXCEPT !.basicAnalysis = TRUE, !.loading = "null"]
         ELSE [landed EXCEPT !.error = "basic", !.loading = "null"]
    ELSE IF kind = "advanced"
    THEN IF result = "data"
         THEN [landed EXCEPT !.advancedAnalysis = TRUE, !.loading = "null"]
         ELSE [landed EXCEPT !.error = "advanced", !.loading = "null"]
    ELSE IF result \in {"documentation", "analysis"}
    THEN [landed EXCEPT !.businessInsights = result, !.loading = "null"]
    ELSE [landed EXCEPT !.error = IF result = "other" THEN "other"
                                  ELSE "business insights",
                        !.loading = "null",
                        !.failedSinceUserAction = TRUE]

PageIdle ==
    [mounted |-> "no", activeTab |-> "overview", basicAnalysis |-> FALSE,
     advancedAnalysis |-> FALSE, businessInsights |-> "null", loading |-> "null",
     error |-> "null", hasAttemptedFetch |-> FALSE, hasAttemptedBusinessFetch |-> FALSE,
     stored |-> FALSE, inflight |-> {}, clicks |-> 0,
     awaitsAdvanced |-> FALSE, failedSinceUserAction |-> FALSE,
     requestedAfterFailure |-> FALSE, requestsSinceUserAction |-> 0,
     requestedUnready |-> FALSE]

\* The first render and its effects
PageMount ==
    /\ page.mounted = "no"
    /\ page' = Settle([page EXCEPT !.mounted = "yes"])
    /\ UNCHANGED notPage

\* The user selects a tab
PageTabClick ==
    /\ page.mounted = "yes"
    /\ page.clicks < MaxPageClicks
    /\ \E tab \in Tabs :
          page' = Settle([HandleTabChange(page, tab) EXCEPT !.clicks = @ + 1])
    /\ UNCHANGED notPage

\* The user clicks Retry, shown while there is an error
PageRetryClick ==
    /\ page.mounted = "yes"
    /\ page.clicks < MaxPageClicks
    /\ page.error # "null"
    /\ page' = Settle([HandleRetry(page) EXCEPT !.clicks = @ + 1])
    /\ UNCHANGED notPage

\* A request in flight is answered
PageFetchResolves ==
    /\ \E kind \in page.inflight : \E result \in FetchResults(kind) :
          page' = IF page.mounted = "yes"
                  THEN Settle(AfterFetch(page, kind, result))
                  ELSE AfterFetch(page, kind, result)
    /\ UNCHANGED notPage

\* The user leaves the page
PageUnmount ==
    /\ page.mounted = "yes"
    /\ page' = [page EXCEPT !.mounted = "gone", !.awaitsAdvanced = FALSE]
    /\ UNCHANGED notPage

(***************************************************************************)
(* The specifications: one per part of the program.                        *)
(***************************************************************************)
Init ==
    /\ page = PageIdle
    /\ adv = AdvIdle
    /\ cfg = CfgIdle
    /\ db = DbIdle
    /\ clock = 0
    /\ cx = CxIdle
    /\ bi = BiIdle
    /\ tempDirs = << >>
    /\ reqs = [r \in Requests |-> IdleReq]
    /\ api = ApiIdle
    /\ tree = Dir(<<>>, <<>>)
    /\ scan = ScanIdle
    /\ graph = [pc |-> "idle", input |-> Null, output |-> NoGraph, calls |-> <<>>]

Next ==
    \/ \E r \in Requests : HandlerStart(r)
    \/ \E r \in Requests : CloneSucceeds(r)
    \/ \E r \in Requests : CloneFails(r)
    \/ \E r \in Requests : HandlerFinish(r)
    \/ Tick

Spec == Init /\ [][Next]_vars

InitApi ==
    /\ page = PageIdle
    /\ adv = AdvIdle
    /\ cfg = CfgIdle
    /\ db = DbIdle
    /\ clock = 0
    /\ cx = CxIdle
    /\ bi = BiIdle
    /\ tempDirs = << >>
    /\ reqs = [r \in Requests |-> IdleReq]
    /\ api = ApiIdle
    /\ tree = Dir(<<>>, <<>>)
    /\ scan = ScanIdle
    /\ graph = [pc |-> "idle", input |-> Null, output |-> NoGraph, calls |-> <<>>]

NextApi ==
    \/ ApiFetch
    \/ ApiAttempt
    \/ ApiSignOutResolves
    \/ ApiSignOutRejects

SpecApi == InitApi /\ [][NextApi]_vars

InitScan ==
    /\ page = PageIdle
    /\ adv = AdvIdle
    /\ cfg = CfgIdle
    /\ db = DbIdle
    /\ clock = 0
    /\ cx = CxIdle
    /\ bi = BiIdle
    /\ tempDirs = << >>
    /\ reqs = [r \in Requests |-> IdleReq]
    /\ api = ApiIdle
    /\ tree \in Checkouts
    /\ scan = ScanIdle
    /\ graph = [pc |-> "idle", input |-> Null, output |-> NoGraph, calls |-> <<>>]

NextScan ==
    \/ AnalyzeDependencies
    \/ FirstPass
    \/ Rescan
    \/ Direct

SpecScan == InitScan /\ [][NextScan]_vars

InitGraph ==
    /\ page = PageIdle
    /\ adv = AdvIdle
    /\ cfg = CfgIdle
    /\ db = DbIdle
    /\ clock = 0
    /\ cx = CxIdle
    /\ bi = BiIdle
    /\ tempDirs = << >>
    /\ reqs = [r \in Requests |-> IdleReq]
    /\ api = ApiIdle
    /\ tree = Dir(<<>>, <<>>)
    /\ scan = ScanIdle
    /\ \E input \in GraphInputs :
          graph = [pc |-> "idle", input |-> input, output |-> NoGraph, calls |-> <<>>]

NextGraph == GenerateGraph \/ CallAgain

SpecGraph == InitGraph /\ [][NextGraph]_vars

InitCx ==
    /\ page = PageIdle
    /\ adv = AdvIdle
    /\ cfg = CfgIdle
    /\ db = DbIdle
    /\ clock = 0
    /\ bi = BiIdle
    /\ tempDirs = << >>
    /\ reqs = [r \in Requests |-> IdleReq]
    /\ api = ApiIdle
    /\ tree = Dir(<<>>, <<>>)
    /\ scan = ScanIdle
    /\ graph = [pc |-> "idle", input |-> Null, output |-> NoGraph, calls |-> <<>>]
    /\ \E file \in ComplexityFiles : cx = [CxIdle EXCEPT !.file = file]

NextCx == AnalyzeFileComplexity \/ EditFile

SpecCx == InitCx /\ [][NextCx]_vars

InitBi ==
    /\ page = PageIdle
    /\ adv = AdvIdle
    /\ cfg = CfgIdle
    /\ db = DbIdle
    /\ clock = 0
    /\ cx = CxIdle
    /\ tempDirs = << >>
    /\ reqs = [r \in Requests |-> IdleReq]
    /\ api = ApiIdle
    /\ tree = Dir(<<>>, <<>>)
    /\ scan = ScanIdle
    /\ graph = [pc |-> "idle", input |-> Null, output |-> NoGraph, calls |-> <<>>]
    /\ \E version \in HandlerVersions : bi = [BiIdle EXCEPT !.version = version]

NextBi == BusinessInsights

SpecBi == InitBi /\ [][NextBi]_vars

InitStore ==
    /\ page = PageIdle
    /\ adv = AdvIdle
    /\ cfg = CfgIdle
    /\ db = DbIdle
    /\ clock = 0
    /\ cx = CxIdle
    /\ bi = BiIdle
    /\ tempDirs = << >>
    /\ reqs = [r \in Requests |-> IdleReq]
    /\ api = ApiIdle
    /\ tree = Dir(<<>>, <<>>)
    /\ scan = ScanIdle
    /\ graph = [pc |-> "idle", input |-> Null, output |-> NoGraph, calls |-> <<>>]

NextStore ==
    \/ StoreTick
    \/ StoreWrite
    \/ GetUser
    \/ ConcurrentWrites

SpecStore == InitStore /\ [][NextStore]_vars

InitConfig ==
    /\ page = PageIdle
    /\ adv = AdvIdle
    /\ \E startKey \in StartKeys :
          cfg = [CfgIdle EXCEPT !.runs = <<StartedServer(startKey), StartedServer(startKey)>>,
                                !.started = startKey]
    /\ db = DbIdle
    /\ clock = 0
    /\ cx = CxIdle
    /\ bi = BiIdle
    /\ tempDirs = << >>
    /\ reqs = [r \in Requests |-> IdleReq]
    /\ api = ApiIdle
    /\ tree = Dir(<<>>, <<>>)
    /\ scan = ScanIdle
    /\ graph = [pc |-> "idle", input |-> Null, output |-> NoGraph, calls |-> <<>>]

NextConfig ==
    \/ CfgGet
    \/ CfgPost
    \/ CfgOtherMethod
    \/ CfgGetClient

SpecConfig == InitConfig /\ [][NextConfig]_vars

\* The call under the scheduling of the event loop: a pending fetch or
\* signOut promise settles and a timer fires, so a step that can be taken is
\* taken
SpecApiFair == SpecApi /\ WF_vars(NextApi)

InitAdvanced ==
    /\ page = PageIdle
    /\ adv = AdvIdle
    /\ cfg = CfgIdle
    /\ db = DbIdle
    /\ clock = 0
    /\ cx = CxIdle
    /\ bi = BiIdle
    /\ tempDirs = << >>
    /\ reqs = [r \in Requests |-> IdleReq]
    /\ api = ApiIdle
    /\ tree = Dir(<<>>, <<>>)
    /\ scan = ScanIdle
    /\ graph = [pc |-> "idle", input |-> Null, output |-> NoGraph, calls |-> <<>>]

NextAdvanced ==
    \/ AdvAnalyzeDependencies
    \/ AdvSampleSourceFiles
    \/ AdvSampleModules
    \/ AdvRespond

SpecAdvanced == InitAdvanced /\ [][NextAdvanced]_vars

InitPage ==
    /\ \E stored \in BOOLEAN : page = [PageIdle EXCEPT !.stored = stored]
    /\ adv = AdvIdle
    /\ cfg = CfgIdle
    /\ db = DbIdle
    /\ clock = 0
    /\ cx = CxIdle
    /\ bi = BiIdle
    /\ tempDirs = << >>
    /\ reqs = [r \in Requests |-> IdleReq]
    /\ api = ApiIdle
    /\ tree = Dir(<<>>, <<>>)
    /\ scan = ScanIdle
    /\ graph = [pc |-> "idle", input |-> Null, output |-> NoGraph, calls |-> <<>>]

NextPage ==
    \/ PageMount
    \/ PageTabClick
    \/ PageRetryClick
    \/ PageFetchResolves
    \/ PageUnmount

SpecPage == InitPage /\ [][NextPage]_vars

\* The page with the browser doing its part: the first render happens and a
\* request in flight is answered; nothing obliges the user to click
SpecPageFair == SpecPage /\ WF_vars(PageMount) /\ WF_vars(PageFetchResolves)

(***************************************************************************)
(* Claims about the request pipeline (checked under Spec).                 *)
(***************************************************************************)

\* C1: for every advanced-analysis request that created a temporary checkout
\* directory, that directory no longer exists once the request has finished,
\* whether it succeeded or failed at any step (a failed git clone included).
C1_DirGoneWhenFinished ==
    \A r \in Requests :
        (reqs[r].pc = "done" /\ reqs[r].cloneDir # NoDir)
            => reqs[r].cloneDir \notin DOMAIN tempDirs

\* C2: any two invocations of cloneRepository (createRepoDirectory) are given
\* distinct checkout directory paths, two requests for the same owner and
\* repo within one clock millisecond included.
C2_DistinctCheckoutDirs ==
    \A r1, r2 \in Requests :
        (r1 # r2 /\ reqs[r1].cloneDir # NoDir /\ reqs[r2].cloneDir # NoDir)
            => reqs[r1].cloneDir # reqs[r2].cloneDir

(***************************************************************************)
(* Claims about apiClient.fetch (checked under SpecApi).                   *)
(***************************************************************************)
AllUnauthorized ==
    /\ api.responses # <<>>
    /\ \A i \in 1..Len(api.responses) : api.responses[i] = "401"

\* C3 as stated: when every attempt of apiClient.fetch receives HTTP 401,
\* the client makes exactly retries+1 requests, then calls signOut exactly
\* once and returns {error: 'Session expired'}; signOut is never called
\* before the last permitted attempt has returned 401.
C3_AllUnauthorizedSessionExpired ==
    /\ (api.pc = "done" /\ AllUnauthorized) =>
          /\ api.requests = api.retries + 1
          /\ api.signOuts = 1
          /\ api.result = [kind |-> "error", value |-> "Session expired"]
    /\ (api.signOuts > 0 \/ api.pc = "signOut") =>
          /\ api.requests = api.retries + 1
          /\ api.responses[api.retries + 1] = "401"

\* C3 amended: when every attempt receives HTTP 401, the client makes
\* exactly retries+1 requests and then calls signOut exactly once; it returns
\* {error: 'Session expired'} when signOut resolves, and {error: m} with m
\* the rejection's message (or 'Request failed' when it has none) when
\* signOut rejects; signOut is never called before the last permitted
\* attempt has returned 401.
C3_AllUnauthorizedSignsOutOnce ==
    /\ (api.pc = "done" /\ AllUnauthorized) =>
          /\ api.requests = api.retries + 1
          /\ api.signOuts = 1
          /\ api.signOutResult = "resolved" =>
                api.result = [kind |-> "error", value |-> "Session expired"]
          /\ api.signOutResult = "rejected" =>
                /\ api.result.kind = "error"
                /\ api.result.value \in (SignOutRejections \ {""}) \cup {"Request failed"}
                /\ api.result.value = IF api.lastError[1] = "" THEN "Request failed"
                                      ELSE api.lastError[1]
    /\ (api.signOuts > 0 \/ api.pc = "signOut") =>
          /\ api.requests = api.retries + 1
          /\ api.responses[api.retries + 1] = "401"

\* Witness of C3: a call with at least one retry ended after 401 on every
\* attempt and a resolved signOut.
C3_Witness ==
    /\ api.pc = "done" /\ AllUnauthorized
    /\ api.retries >= 1 /\ api.signOutResult = "resolved"

(***************************************************************************)
(* Claims about the relationship scanner (checked under SpecScan).         *)
(***************************************************************************)
\* analyzeFileRelationships ran and returned
ScanReturned == scan.pc = "done" /\ scan.route # "depcruise"
\* processDirectory(repoDir) has run
FirstPassDone == scan.pc \in {"rescan", "direct", "done"} /\ scan.route # "depcruise"

Files == scan.relationships.files
Edges == scan.relationships.dependencies

\* The files in the checkout's root that processFile scans
ScannedRootFiles ==
    { j \in 1..Len(tree.children) :
        /\ tree.statOk /\ tree.readOk
        /\ tree.children[j].type = "file"
        /\ tree.children[j].statOk /\ tree.children[j].readOk
        /\ ~StartsWith(tree.children[j].name, ".")
        /\ Patterns(ToLowerCase(ExtName(tree.children[j].name))) # <<>> }

\* The import targets captured in a file: each result[1], trimmed
TargetsOf(file) ==
    LET captures == Captures(Patterns(ToLowerCase(ExtName(file.name))), file.content, 1)
    IN { Trim(captures[i]) : i \in {k \in 1..Len(captures) : captures[k] # <<>>} }

HasImportEdge(from, to) ==
    \E i \in 1..Len(Edges) : Edges[i] = [from |-> from, to |-> to, type |-> "import"]

\* C4: analyzeFileRelationships never fails: for every state of the checkout
\* directory (missing, unreadable, empty, with unreadable entries) it returns
\* a result with a non-empty file list; analyzeDependencies returns a result
\* whenever the dependency-cruiser step fails: it hands the checkout to the scanner.
C4_ScannerAlwaysReturnsFiles ==
    /\ ScanReturned => Files # <<>>
    /\ scan.route = "fallback" => scan.pc \in {"firstPass", "rescan", "direct", "done"}

\* Witness of C4: the scanner returned for a checkout directory that cannot
\* be read, and for one where dependency-cruiser had failed.
C4_Witness ==
    /\ ScanReturned
    /\ \/ ~tree.readOk
       \/ scan.route = "fallback" /\ \E j \in 1..Len(tree.children) : ~tree.children[j].statOk

\* A tree of readable, visible recognized source files (files whose extension
\* has import patterns) in which no captured target passes the scanner's
\* test for a local path
RECURSIVE CleanItems(_, _)
CleanItems(items, i) ==
    \/ i > Len(items)
    \/ /\ items[i].statOk /\ items[i].readOk
       /\ ~StartsWith(items[i].name, ".")
       /\ IF items[i].type = "dir"
          THEN items[i].name \notin IgnoredDirs /\ CleanItems(items[i].children, 1)
          ELSE /\ Patterns(ToLowerCase(ExtName(items[i].name))) # <<>>
               /\ \A t \in TargetsOf(items[i]) : ~IsLocalTarget(t)
       /\ CleanItems(items, i + 1)

CleanTree == tree.statOk /\ tree.readOk /\ CleanItems(tree.children, 1)

\* The number of files below a listing
RECURSIVE CountFiles(_, _)
CountFiles(items, i) ==
    IF i > Len(items) THEN 0
    ELSE (IF items[i].type = "dir" THEN CountFiles(items[i].children, 1) ELSE 1)
         + CountFiles(items, i + 1)

\* The top-level sub-directories the re-scan takes for project roots
ProjectSubdirs ==
    { j \in 1..Len(tree.children) :
        tree.children[j].type = "dir" /\ HasIndicator(tree.children[j]) }

RECURSIVE SumOver(_, _)
SumOver(S, f) ==
    IF S = {} THEN 0
    ELSE LET x == CHOOSE y \in S : TRUE IN f[x] + SumOver(S \ {x}, f)

FilesInProjectSubdirs ==
    SumOver(ProjectSubdirs,
            [j \in ProjectSubdirs |-> CountFiles(tree.children[j].children, 1)])

\* C5 as stated: for any directory tree containing N recognized source files
\* with no cross-references, for every N >= 0 and every placement of the
\* files in sub-directories, the scanner returns exactly N file entries and
\* zero dependency edges.
C5_NFilesNoEdges ==
    (ScanReturned /\ CleanTree) =>
        /\ Len(Files) = CountFiles(tree.children, 1)
        /\ Edges = <<>>

\* C5 amended: for such a tree the scanner returns exactly N file entries and
\* zero edges when N >= 3, and when N is 1 or 2 and no top-level
\* sub-directory holds a project indicator; when N = 0 it returns the example
\* dataset; when N is 1 or 2 and top-level sub-directories hold a project
\* indicator, the files below those are listed a second time and there are
\* zero edges.
C5_NFilesNoEdgesFromThree ==
    (ScanReturned /\ CleanTree) =>
        LET n == CountFiles(tree.children, 1) IN
        /\ (n >= 3 \/ (n >= 1 /\ ProjectSubdirs = {})) =>
              Len(Files) = n /\ Edges = <<>>
        /\ n = 0 => scan.relationships = ExampleData
        /\ (n \in 1..2 /\ ProjectSubdirs # {}) =>
              Len(Files) = n + FilesInProjectSubdirs /\ Edges = <<>>

\* Witness of C5: three or more recognized files without cross-references,
\* one of them in a sub-directory that holds a project indicator.
C5_Witness ==
    /\ ScanReturned /\ CleanTree
    /\ CountFiles(tree.children, 1) >= 3
    /\ ProjectSubdirs # {}

\* C6: for a scanned file whose import statements all name external packages
\* (every captured target has no leading '.' and no leading '/'), the
\* scanner emits zero edges whose `from` is that file.
C6_ExternalImportsNoEdges ==
    FirstPassDone =>
        \A j \in ScannedRootFiles :
            (\A t \in TargetsOf(tree.children[j]) :
                ~StartsWith(t, ".") /\ ~StartsWith(t, "/"))
            => \A i \in 1..Len(Edges) : Edges[i].from # tree.children[j].name

TwoFileProject ==
    Dir(<<>>, << File(<<"a", ".", "j", "s">>, ImportBare),
                 File(<<"b", ".", "j", "s">>, NoImports) >>)

\* C7: for a checkout containing exactly a.js (whose content is
\* `import './b'`) and b.js (no imports), the scanner returns exactly the
\* files a.js and b.js and exactly one edge
\* {from: 'a.js', to: './b', type: 'import'}.
C7_TwoFileProjectOneEdge ==
    (ScanReturned /\ tree = TwoFileProject) =>
        /\ Files = << <<"a", ".", "j", "s">>, <<"b", ".", "j", "s">> >>
        /\ Edges = << [from |-> <<"a", ".", "j", "s">>, to |-> <<".", "/", "b">>,
                       type |-> "import"] >>

\* A checkout with no entries other than hidden ones
EmptyRepository ==
    /\ tree.statOk /\ tree.readOk
    /\ \A j \in 1..Len(tree.children) : StartsWith(tree.children[j].name, ".")

\* C9: for an empty repository (the checkout contains no files other than
\* hidden entries such as .git), the scanner passes through the first pass,
\* the sub-directory re-scan and the bare listing without recording any
\* file, and returns exactly the fixed example dataset of 5 files and 4
\* import edges.
C9_EmptyRepositoryExampleData ==
    EmptyRepository =>
        /\ scan.pc \in {"rescan", "direct"} => scan.relationships = NoRelationships
        /\ ScanReturned =>
              /\ scan.relationships = ExampleData
              /\ Len(Files) = 5 /\ Len(Edges) = 4
              /\ \A i \in 1..Len(Edges) : Edges[i].type = "import"

\* Witness of C9: the scanner returned for a checkout holding only .git and
\* .gitignore.
C9_Witness ==
    /\ ScanReturned /\ EmptyRepository
    /\ Len(tree.children) = 2

TwoFileScan ==
    Object(Array(<< <<"a", ".", "j", "s">>, <<"b", ".", "j", "s">> >>),
           Array(<< [from |-> <<"a", ".", "j", "s">>, to |-> <<".", "/", "b">>,
                     type |-> "import"] >>))

GraphReturned == graph.pc = "done"
\* The input carries a dependency list
HasEdgeList ==
    /\ graph.input.kind = "object"
    /\ DependenciesOf(graph.input).kind = "array"
InputEdges == DependenciesOf(graph.input).items
InputFiles == graph.input.fields[1].items
\* The input is a scan: every edge leaves a file of the file list
ScannerOutput ==
    /\ HasEdgeList
    /\ \A i \in 1..Len(InputEdges) :
          \E k \in 1..Len(InputFiles) : InputEdges[i].from = InputFiles[k]
NodeIds == { graph.output.nodes[i].id : i \in 1..Len(graph.output.nodes) }

\* C8 as stated: given the scan of the two-file project, the formatter
\* returns exactly 2 nodes with ids a.js and b.js, each with group 1, and
\* exactly 1 link from a.js to b.js; in general every file of the scan
\* appears as a node and each link target is the id of a scanned file.
C8_GraphOfScannedFiles ==
    /\ (GraphReturned /\ graph.input = TwoFileScan) =>
          /\ Len(graph.output.nodes) = 2
          /\ { graph.output.nodes[i] : i \in 1..2 }
                = { [id |-> <<"a", ".", "j", "s">>, group |-> 1],
                    [id |-> <<"b", ".", "j", "s">>, group |-> 1] }
          /\ graph.output.links
                = << [source |-> <<"a", ".", "j", "s">>,
                      target |-> <<"b", ".", "j", "s">>, value |-> 1] >>
    /\ (GraphReturned /\ ScannerOutput) =>
          /\ \A i \in 1..Len(InputFiles) : InputFiles[i] \in NodeIds
          /\ \A i \in 1..Len(graph.output.links) :
                \E k \in 1..Len(InputFiles) :
                    graph.output.links[i].target = InputFiles[k]

\* C8 amended: given the scan of the two-file project, the formatter returns
\* exactly 2 nodes with ids a.js and './b', each with group 1, and exactly 1
\* link whose source is a.js and whose target is './b'; in general the nodes
\* are the distinct `from` and `to` strings of the dependency entries, each
\* once, every link's source and target is the id of a node, and a file of
\* the scan that is in no entry is not a node.
C8_GraphOfEdgeEndpoints ==
    /\ (GraphReturned /\ graph.input = TwoFileScan) =>
          /\ graph.output.nodes
                = << [id |-> <<"a", ".", "j", "s">>, group |-> 1],
                     [id |-> <<".", "/", "b">>, group |-> 1] >>
          /\ graph.output.links
                = << [source |-> <<"a", ".", "j", "s">>,
                      target |-> <<".", "/", "b">>, value |-> 1] >>
    /\ (GraphReturned /\ HasEdgeList) =>
          /\ NodeIds = { InputEdges[i].from : i \in 1..Len(InputEdges) }
                       \cup { InputEdges[i].to : i \in 1..Len(InputEdges) }
          /\ Cardinality(NodeIds) = Len(graph.output.nodes)
          /\ \A i \in 1..Len(graph.output.links) :
                /\ graph.output.links[i].source \in NodeIds
                /\ graph.output.links[i].target \in NodeIds

\* Witness of C8: the formatter returned for the scan of the two-file project.
C8_Witness == GraphReturned /\ graph.input = TwoFileScan

(***************************************************************************)
(* Further claims about the relationship scanner (checked under SpecScan). *)
(***************************************************************************)
\* The regular files in the checkout's root that the first pass reaches:
\* readable, not hidden
ReachedRootFiles ==
    { j \in 1..Len(tree.children) :
        /\ tree.statOk /\ tree.readOk
        /\ tree.children[j].type = "file"
        /\ tree.children[j].statOk /\ tree.children[j].readOk
        /\ ~StartsWith(tree.children[j].name, ".") }

InFiles(path) == \E i \in 1..Len(Files) : Files[i] = path

C12_EdgeFromIsListedFile ==
    \A i \in 1..Len(Edges) : InFiles(Edges[i].from)

\* Witness of C12: the scanner returned import edges found by the
\* sub-directory re-scan.
C12_Witness ==
    /\ ScanReturned
    /\ Len(Files) < 3
    /\ ProjectSubdirs # {}
    /\ \E i \in 1..Len(Edges) : Edges[i].type = "import" /\ Edges[i].from # <<"a", ".", "j", "s">>


\* C13: the file list returned by one scan contains no duplicate path, for
\* every directory tree, including trees where the sub-directory re-scan
\* runs after the first pass and trees with several project sub-directories
\* holding files of the same name.
C13_NoDuplicatePaths ==
    ScanReturned =>
        \A i, k \in 1..Len(Files) : Files[i] = Files[k] => i = k


(***************************************************************************)
(* Further claims about the graph formatter (checked under SpecGraph).     *)
(***************************************************************************)
\* The input is null or undefined, or its `dependencies` field is null or
\* missing
NoDependencyList ==
    \/ Falsy(graph.input)
    \/ graph.input.kind = "object" /\ Falsy(DependenciesOf(graph.input))

\* C14: for an input that is null, undefined, or has a null or missing
\* `dependencies` field, generateDependencyGraph returns exactly the fixed
\* placeholder graph with 4 nodes and 3 links; for no input does it throw:
\* every call returns a graph of nodes and links, the one from the catch
\* block when the dependency list cannot be iterated.
C14_PlaceholderForMissingList ==
    GraphReturned =>
        /\ NoDependencyList =>
              /\ graph.output = PlaceholderGraph
              /\ Len(graph.output.nodes) = 4 /\ Len(graph.output.links) = 3
        /\ DOMAIN graph.output = {"nodes", "links"}
        /\ (graph.input.kind = "object" /\ DependenciesOf(graph.input) = NotAnArray)
              => graph.output = ErrorGraph

\* Witness of C14: the formatter returned for an object without a
\* `dependencies` field.
C14_Witness ==
    /\ GraphReturned
    /\ graph.input.kind = "object" /\ DependenciesOf(graph.input) = Missing

\* The input's dependency list is present but empty
EmptyDependencyList ==
    HasEdgeList /\ InputEdges = <<>>

\* C15: for an input whose dependency list is present but empty,
\* generateDependencyGraph returns the fixed placeholder graph (not a graph
\* with zero nodes and zero links).
C15_PlaceholderForEmptyList ==
    (GraphReturned /\ EmptyDependencyList) => graph.output = PlaceholderGraph

\* C16: for every input with k dependency entries (duplicates included),
\* generateDependencyGraph returns exactly k links, one per entry with that
\* entry's from/to as source/target, each with value 1; duplicate edges are
\* neither merged nor given a larger value.
C16_OneLinkPerEntry ==
    (GraphReturned /\ HasEdgeList) =>
        /\ Len(graph.output.links) = Len(InputEdges)
        /\ \A i \in 1..Len(InputEdges) :
              graph.output.links[i] = [source |-> InputEdges[i].from,
                                       target |-> InputEdges[i].to,
                                       value |-> 1]

\* Witness of C16: the formatter returned for a list that holds the same
\* edge twice.
C16_Witness ==
    /\ GraphReturned /\ HasEdgeList
    /\ Len(InputEdges) = 2 /\ InputEdges[1] = InputEdges[2]


\* The calls that have returned: the earlier ones and the current one
ReturnedCalls ==
    { graph.calls[i] : i \in 1..Len(graph.calls) }
    \cup (IF GraphReturned THEN {[input |-> graph.input, output |-> graph.output]} ELSE {})

NodeSet(output) == { output.nodes[i] : i \in 1..Len(output.nodes) }
LinkCount(output, link) ==
    Cardinality({ i \in 1..Len(output.links) : output.links[i] = link })
SameLinkBag(a, b) ==
    \A i \in 1..Len(a.links) :
        LinkCount(a, a.links[i]) = LinkCount(b, a.links[i])

CxReturned == cx.pc = "done" /\ cx.result.kind = "metrics"
CxBucket == Bucket(ToLowerCase(ExtName(cx.file.name)))

\* C18: for a file in the JS/TS, Python or Java bucket, inserting one more
\* occurrence of `if` anywhere in the content never decreases the
\* complexity reported by analyzeFileComplexity.
C18_InsertIfNeverDecreases ==
    (CxReturned /\ CxBucket # <<>>) =>
        \A i \in 1..Len(cx.before) :
            cx.before[i].result.metrics.complexity <= cx.result.metrics.complexity

\* Witness of C18: the file was analysed again after `if` was inserted in
\* the middle of a keyword it had matched, and the complexity stayed.
C18_Witness ==
    /\ CxReturned /\ CxBucket # <<>>
    /\ Len(cx.before) = 1
    /\ cx.before[1].content = <<"e", "l", "s", "e">>
    /\ cx.file.content = <<"e", "l", "i", "f", "s", "e">>
    /\ cx.result.metrics.complexity = 1

\* The number of places where a word occurs in a text
Occurrences(word, text) ==
    Cardinality({ i \in 1..Len(text) :
                    /\ i + Len(word) - 1 <= Len(text)
                    /\ SubSeq(text, i, i + Len(word) - 1) = word })

\* The keywords of the file's bucket
CxKeywords == { CxBucket[1].decisions[a][1].lit : a \in 1..Len(CxBucket[1].decisions) }

\* The occurrences of keywords in the file: <<position, keyword>>
KeywordOccurrences ==
    { o \in (1..Len(cx.file.content)) \X CxKeywords :
        /\ o[1] + Len(o[2]) - 1 <= Len(cx.file.content)
        /\ SubSeq(cx.file.content, o[1], o[1] + Len(o[2]) - 1) = o[2] }

Overlap(o, p) ==
    o # p /\ o[1] < p[1] + Len(p[2]) /\ p[1] < o[1] + Len(o[2])

\* C19: for a file whose content contains exactly 3 occurrences of `if`, 2
\* occurrences of `else` and no other complexity-keyword match,
\* analyzeFileComplexity reports complexity 5; more generally the score is
\* the number of non-overlapping leftmost matches of the bucket's keyword
\* set (the number of keyword occurrences when no two of them overlap), and
\* is 0 for a file outside the JS/TS, Python and Java buckets.
C19_ComplexityCountsKeywords ==
    CxReturned =>
        /\ CxBucket = <<>> => cx.result.metrics.complexity = 0
        /\ CxBucket # <<>> =>
              /\ ( /\ Occurrences(<<"i", "f">>, cx.file.content) = 3
                   /\ Occurrences(<<"e", "l", "s", "e">>, cx.file.content) = 2
                   /\ \A o \in KeywordOccurrences :
                         o[2] \in {<<"i", "f">>, <<"e", "l", "s", "e">>} )
                 => cx.result.metrics.complexity = 5
              /\ (\A o, p \in KeywordOccurrences : ~Overlap(o, p))
                 => cx.result.metrics.complexity = Cardinality(KeywordOccurrences)

\* Witness of C19: a JS file with exactly 3 `if` and 2 `else` was analysed.
C19_Witness ==
    /\ CxReturned
    /\ cx.file.name = <<"a", ".", "j", "s">>
    /\ Occurrences(<<"i", "f">>, cx.file.content) = 3
    /\ Occurrences(<<"e", "l", "s", "e">>, cx.file.content) = 2
    /\ cx.result.metrics.complexity = 5


(***************************************************************************)
(* Claims about the business-insights handler (checked under SpecBi).      *)
(***************************************************************************)
\* The known substring a caught error's message contains, when it contains
\* exactly one of them
KnownSubstrings ==
    { <<"A", "P", "I", " ", "k", "e", "y">>, <<"t", "i", "m", "e", "o", "u", "t">>,
      <<"r", "a", "t", "e", " ", "l", "i", "m", "i", "t">> }
FailureKinds(response) ==
    IF response.thrown = <<>> THEN {}
    ELSE { k \in KnownSubstrings : IncludesText(response.thrown[1], k) }

\* C20: in the business-insights handler, a failure whose message contains
\* "API key", one whose message contains "timeout" and one whose message
\* contains "rate limit" are answered with three pairwise distinct HTTP
\* status codes.
C20_DistinctStatusPerFailureKind ==
    \A r, q \in bi.responses :
        ( /\ Cardinality(FailureKinds(r)) = 1
          /\ Cardinality(FailureKinds(q)) = 1
          /\ FailureKinds(r) # FailureKinds(q) )
        => r.status # q.status

(***************************************************************************)
(* Claims about the JSON-file stores (checked under SpecStore).            *)
(***************************************************************************)
RaceRecorded == db.race # <<>>
Race == db.race[1]

\* The files after the two operations of the race ran one after the other
SerialResults ==
    { RunAlone(Race.b, RunAlone(Race.a, Race.before, Race.now), Race.now),
      RunAlone(Race.a, RunAlone(Race.b, Race.before, Race.now), Race.now) }

\* The outcomes of the race in which an update is missing from the file
LostUpdates == Race.outcomes \ SerialResults

\* C21, as stated: when two writer operations on the same store are invoked
\* concurrently in one server process, their read and rewrite steps can
\* interleave so that one operation's update is missing from the file after
\* both complete.
C21_LostUpdateInOneProcess ==
    (RaceRecorded /\ Race.sameProcess) => LostUpdates # {}

\* C21, amended: two writer operations invoked concurrently in one server
\* process never lose an update, because no operation awaits between its
\* read and its rewrite: the file ends as if the two had run one after the
\* other.  An update is lost when the two operations on the users/accounts/
\* sessions file run in two processes sharing the file.
C21_LostUpdateNeedsTwoProcesses ==
    RaceRecorded =>
        /\ Race.sameProcess => LostUpdates = {}
        /\ (~Race.sameProcess /\ StoreOf(Race.a) = "data") => LostUpdates # {}

C21_Witness ==
    /\ RaceRecorded
    /\ Race.sameProcess
    /\ Race.a = [kind |-> "createUser", arg |-> "a@x"]
    /\ Race.b = [kind |-> "createUser", arg |-> "b@x"]
    /\ Len(Race.before.data.accounts) = 1
    /\ Len(db.files.data.users) = 2
    /\ Len(db.files.data.accounts) = 1

\* C30: after any sequence of createUser calls all stored users have pairwise
\* distinct ids, users created within the same clock millisecond included, so
\* getUser(id) returns the user that createUser returned with that id.
C30_DistinctUserIds ==
    (~db.ioFailed /\ ~RaceRecorded) =>
        /\ \A i, j \in 1..Len(db.files.data.users) :
              i # j => db.files.data.users[i].id # db.files.data.users[j].id
        /\ \A k \in 1..Len(db.found) :
              db.found[k].user = <<db.created[db.found[k].call]>>

(***************************************************************************)
(* Claims about the configuration handler (checked under SpecConfig).      *)
(***************************************************************************)
GetResponses == { i \in 1..Len(cfg.log) : cfg.log[i].op = "GET" }
SavedDifferentKeys ==
    cfg.runs[1].file.openaiApiKey # cfg.runs[2].file.openaiApiKey

\* C22: after any sequence of config POST and GET requests, the openaiApiKey
\* field of every GET response is '' or '********', and two runs that differ
\* only in the key values saved get identical GET responses.
C22_GetNeverRevealsKey ==
    \A i \in GetResponses :
        /\ \A r \in {1, 2} :
              cfg.log[i].responses[r].body.openaiApiKey \in {"", "********"}
        /\ cfg.log[i].responses[1] = cfg.log[i].responses[2]

C22_Witness ==
    /\ SavedDifferentKeys
    /\ Len(cfg.log) >= 2
    /\ cfg.log[Len(cfg.log)].op = "GET"
    /\ cfg.log[Len(cfg.log)].responses[1].status = 200
    /\ cfg.log[Len(cfg.log)].responses[1].body.openaiApiKey = "********"
    /\ cfg.log[Len(cfg.log) - 1].op = "POST"

\* A POST that saved the key of its body
SavedAt(i) ==
    /\ cfg.log[i].op = "POST"
    /\ cfg.log[i].responses[1].status = 200

\* C23: after a config POST with a non-empty key k succeeds, the next
\* getOpenAIClient call builds its client with k, whatever key the server was
\* started with; and after a POST that saves an empty key, GET config no
\* longer reports hasOpenaiApiKey true on account of a previously saved key.
C23_SavedKeyHotApplied ==
    \A i \in 1..(Len(cfg.log) - 1) :
        /\ (SavedAt(i) /\ KeyOf(1, cfg.log[i].body) # "" /\ cfg.log[i + 1].op = "client")
              => cfg.log[i + 1].clients[1] = KeyOf(1, cfg.log[i].body)
        /\ (SavedAt(i) /\ cfg.log[i].body = "empty" /\ cfg.started = ""
                /\ cfg.log[i + 1].op = "GET" /\ cfg.log[i + 1].responses[1].status = 200)
              => ~cfg.log[i + 1].responses[1].body.hasOpenaiApiKey

(***************************************************************************)
(* Claims about the scanner's fallback tiers (checked under SpecScan).     *)
(***************************************************************************)
DeniedDirs == { <<"n", "o", "d", "e", "_", "m", "o", "d", "u", "l", "e", "s">>, <<"d", "i", "s", "t">>, <<"b", "u", "i", "l", "d">> }

\* The directories a path passes through: its segments before the last one
DirectoriesOf(path) ==
    UNION { { SubSeq(path, i, k) : k \in { n \in i..(Len(path) - 1) :
                  /\ path[n + 1] = "/"
                  /\ (i = 1 \/ path[i - 1] = "/")
                  /\ \A x \in i..n : path[x] # "/" } }
            : i \in 1..Len(path) }

\* The path lies inside a node_modules, dist or build directory or inside a
\* hidden directory ('.' and '..' are not directories of their own)
InsideDenied(path) ==
    \E d \in DirectoriesOf(path) :
        d \in DeniedDirs \/ (StartsWith(d, ".") /\ d \notin { <<".">>, <<".", ".">> })

\* C24: in every fallback tier, no path in the scanner's returned file list
\* and no edge endpoint it generates lies inside a node_modules, dist or build
\* directory or inside a hidden directory.
C24_NoPathInsideDeniedDirs ==
    ScanReturned =>
        /\ \A i \in 1..Len(Files) : ~InsideDenied(Files[i])
        /\ \A i \in 1..Len(Edges) :
              ~InsideDenied(Edges[i].from) /\ ~InsideDenied(Edges[i].to)

\* What the first pass and the sub-directory re-scan record for the checkout
RecordedBeforeListing ==
    SubdirRescan(tree, ProcessDirectory(tree.statOk, tree, <<>>, NoRelationships))
\* What the bare recursive listing finds in the checkout
BareListing == ScanFiles(tree, <<>>)

EdgesOfType(type) == { i \in 1..Len(Edges) : Edges[i].type = type }

\* C25: when the first pass and the sub-directory re-scan record zero files
\* and the bare recursive listing finds k >= 1 files, the scanner returns
\* exactly those k files and exactly k-1 edges, each of type 'related' and
\* each from the first listed file to one of the other files; the example
\* dataset is returned only when the bare listing finds no file or fails;
\* and 'related' edges never appear together with 'import' edges.
C25_BareListingRelatedEdges ==
    ScanReturned =>
        /\ (/\ RecordedBeforeListing.files = <<>>
            /\ ~BareListing.threw
            /\ Len(BareListing.results) >= 1)
           => /\ Files = BareListing.results
              /\ Len(Edges) = Len(BareListing.results) - 1
              /\ \A i \in 1..Len(Edges) :
                    Edges[i] = [from |-> BareListing.results[1],
                                to |-> BareListing.results[i + 1],
                                type |-> "related"]
        /\ scan.relationships = ExampleData
           => /\ RecordedBeforeListing.files = <<>>
              /\ BareListing.threw \/ BareListing.results = <<>>
        /\ EdgesOfType("related") = {} \/ EdgesOfType("import") = {}

\* Witness of C25: the bare listing found three files, and the scanner
\* returned them with two 'related' edges from the first.
C25_Witness ==
    /\ ScanReturned
    /\ RecordedBeforeListing.files = <<>>
    /\ Len(BareListing.results) = 3
    /\ Len(Files) = 3
    /\ Len(Edges) = 2
    /\ Edges[2].from = Files[1] /\ Edges[2].to = Files[3]

(***************************************************************************)
(* Termination of apiClient.fetch (checked under SpecApiFair).             *)
(***************************************************************************)
ApiCalled == api.pc # "idle"
ApiResolved ==
    /\ api.pc = "done"
    /\ api.result.kind \in {"data", "error"}

AdvAnswered200 == adv.pc = "done" /\ adv.status = 200

\* C26: every successful (HTTP 200) advanced-analysis response carries a
\* fileComplexityAnalysis list with at least 1 and at most 10 entries, for
\* every outcome of the scan and of the per-file analyses.
C26_SampleBetweenOneAndTen ==
    AdvAnswered200 =>
        /\ Len(adv.fileComplexityAnalysis) >= 1
        /\ Len(adv.fileComplexityAnalysis) <= 10

\* Witness of C26: a response with 10 entries for a scan that returned more
\* than 10 paths.
C26_Witness ==
    /\ AdvAnswered200
    /\ adv.modules.length > 10
    /\ Len(adv.fileComplexityAnalysis) = 10
    /\ adv.fileComplexityAnalysis[10] = Entry("modules", 10)

(***************************************************************************)
(* Claims about the analyze page (checked under SpecPage, SpecPageFair).   *)
(***************************************************************************)
\* C27: after a business-insights request has failed, no further
\* business-insights request is issued until the user clicks Retry or selects
\* the Business tab again; without user action the page issues at most one
\* business-insights request; and a business-insights request is only issued
\* when both the basic and the advanced analysis are loaded and no other
\* fetch is in flight.
C27_NoBusinessRequestWithoutUser ==
    /\ ~page.requestedAfterFailure
    /\ page.requestsSinceUserAction <= 1
    /\ ~page.requestedUnready

\* C28: whenever the user selects a tab that needs the advanced analysis and
\* it is not yet loaded, the advanced-analysis request is eventually issued
\* without further user input, also when the tab is selected while the basic
\* analysis is still loading.
C28_AdvancedEventuallyRequested ==
    page.awaitsAdvanced ~> ~page.awaitsAdvanced

====
